---- MODULE Spec2Model ----
(***************************************************************************)
(* TradeableAssistant: the multi-model ensembler, the resilient fetch, the *)
(* source adapters and the market aggregator, modelled from the server     *)
(* sources.  Each subsystem has its own specification (SpecEnsemble,       *)
(* SpecFetch, SpecAdapter, SpecMarket) over its own variables.             *)
(*                                                                         *)
(* Numbers: confidences are in hundredths (0.9 is 90); a consensus score   *)
(* is kept in units of 1/1200 so that the mean of up to four confidences   *)
(* is exact.  Texts are sequences of string tokens; concatenation of       *)
(* strings is concatenation of sequences.                                  *)
(***************************************************************************)
EXTENDS Integers, Sequences, FiniteSets, TLC

VARIABLES
  ePc, eImpl, eEnabled, eWeighting, eStatus, eResp, eOrder, eResult,
  fPc, fVer, fRetries, fI, fHostname, fUrlHost, fAttempts, fHosts, fCauses,
  fWaits, fErr, fJitter, fLatest,
  aPc, aOp, aEnv, aOut, rPc, rCoins, rStats, rCtx,
  mNow, mTicks, mTimerDue, lastUpdate, cachedMarketData, cacheTimestamp,
  marketStats, mHeap, mTasks, mPublished,
  model, isInitializing, qPc, qText, qEnv, qLocal, qApi, qTried, qResult,
  qPrev, qCalls,
  bPc, bImpl, bTexts, maxConcurrency, bI, bItems, bStarted, bDelays, bLog,
  bResults, bData,
  gPc, gImpl, gInput, gData, gOverall,
  tPc, tPercents, tTags, tGlobal,
  loopPc, loopImpl, loopRetries, loopI, loopSettled, loopAttempts, loopLog,
  loopEnd,
  remaining, twWindowOver, twCalls

ensVars == <<ePc, eImpl, eEnabled, eWeighting, eStatus, eResp, eOrder, eResult>>

fetchVars == <<fPc, fVer, fRetries, fI, fHostname, fUrlHost, fAttempts, fHosts,
               fCauses, fWaits, fErr, fJitter, fLatest>>

adVars == <<aPc, aOp, aEnv, aOut, rPc, rCoins, rStats, rCtx>>

marketVars == <<mNow, mTicks, mTimerDue, lastUpdate, cachedMarketData,
                cacheTimestamp, marketStats, mHeap, mTasks, mPublished>>

sentVars == <<model, isInitializing, qPc, qText, qEnv, qLocal, qApi, qTried,
              qResult, qPrev, qCalls>>

batchVars == <<bPc, bImpl, bTexts, maxConcurrency, bI, bItems, bStarted,
               bDelays, bLog, bResults, bData>>

aggVars == <<gPc, gImpl, gInput, gData, gOverall>>

tagVars == <<tPc, tPercents, tTags, tGlobal>>

loopVars == <<loopPc, loopImpl, loopRetries, loopI, loopSettled, loopAttempts,
              loopLog, loopEnd>>

twitterVars == <<remaining, twWindowOver, twCalls>>

vars == <<ensVars, fetchVars, adVars, marketVars, sentVars, batchVars,
          aggVars, tagVars, loopVars, twitterVars>>

\* What the actions of one subsystem leave alone.
notEns ==
  <<fetchVars, adVars, marketVars, sentVars, batchVars, aggVars, tagVars, loopVars, twitterVars>>
notFetch ==
  <<ensVars, adVars, marketVars, sentVars, batchVars, aggVars, tagVars, loopVars, twitterVars>>
notAd ==
  <<ensVars, fetchVars, marketVars, sentVars, batchVars, aggVars, tagVars, loopVars, twitterVars>>
notMarket ==
  <<ensVars, fetchVars, adVars, sentVars, batchVars, aggVars, tagVars, loopVars, twitterVars>>
notSent ==
  <<ensVars, fetchVars, adVars, marketVars, batchVars, aggVars, tagVars, loopVars, twitterVars>>
notBatch ==
  <<ensVars, fetchVars, adVars, marketVars, sentVars, aggVars, tagVars, loopVars, twitterVars>>
notAgg ==
  <<ensVars, fetchVars, adVars, marketVars, sentVars, batchVars, tagVars, loopVars, twitterVars>>
notTag ==
  <<ensVars, fetchVars, adVars, marketVars, sentVars, batchVars, aggVars, loopVars, twitterVars>>
notLoop ==
  <<ensVars, fetchVars, adVars, marketVars, sentVars, batchVars, aggVars, tagVars, twitterVars>>
notTwitter ==
  <<ensVars, fetchVars, adVars, marketVars, sentVars, batchVars, aggVars, tagVars, loopVars>>

(***************************************************************************)
(* Generic helpers on sequences.                                           *)
(***************************************************************************)
RECURSIVE SumSeq(_)
SumSeq(s) == IF s = <<>> THEN 0 ELSE Head(s) + SumSeq(Tail(s))

RECURSIVE FlattenSeq(_)
FlattenSeq(ss) == IF ss = <<>> THEN <<>> ELSE Head(ss) \o FlattenSeq(Tail(ss))

\* Array.prototype.join: the elements with sep between consecutive ones.
RECURSIVE JoinSeq(_, _)
JoinSeq(ss, sep) ==
  IF ss = <<>> THEN <<>>
  ELSE IF Len(ss) = 1 THEN Head(ss)
       ELSE Head(ss) \o sep \o JoinSeq(Tail(ss), sep)

IsPrefix(p, s) == Len(p) <= Len(s) /\ SubSeq(s, 1, Len(p)) = p

CountTok(s, t) == Cardinality({i \in 1..Len(s) : s[i] = t})

(***************************************************************************)
(* The ensembler.  Two classes implement generateEnsembleResponse:         *)
(*   "AI": MultiModelAIService (server/services/multi-model-ai-service),   *)
(*   "MM": MultiModelService   (server/services/multi-model-service, the   *)
(*         one the /api/chat route calls).                                 *)
(***************************************************************************)
EnsembleImpls == {"AI", "MM"}

\* The option flags in the order the code tests them (invocation order).
SourceOrder == <<"useGemini", "useFinancialBert", "useCryptoBert", "useNewsAnalysis">>
SourceFlags == {SourceOrder[i] : i \in 1..Len(SourceOrder)}

Weightings == {"confidence", "equal"}

\* HF_MODELS[...].split("/").pop(): FINANCIAL_BERT and NEWS_CLASSIFICATION
\* name the same model.
HFModelName(flag) ==
  CASE flag = "useFinancialBert" -> "twitter-roberta-base-sentiment-latest"
    [] flag = "useCryptoBert"    -> "bert-base-multilingual-uncased-sentiment"
    [] flag = "useNewsAnalysis"  -> "twitter-roberta-base-sentiment-latest"

\* The source label of the contribution a flag's call produces.
SourceLabel(impl, flag) ==
  IF flag = "useGemini" THEN "Gemini"
  ELSE IF impl = "AI"
       THEN (CASE HFModelName(flag) = "twitter-roberta-base-sentiment-latest"
                    -> "HF-twitter-roberta-base-sentiment-latest"
               [] OTHER -> "HF-bert-base-multilingual-uncased-sentiment")
       ELSE (CASE flag = "useFinancialBert" -> "FinancialBERT"
               [] flag = "useCryptoBert"    -> "CryptoBERT"
               [] OTHER                     -> "NewsAnalysis")

\* The fixed confidences MultiModelService gives its four sources.
MMConfidence(flag) ==
  CASE flag = "useGemini"        -> 90
    [] flag = "useFinancialBert" -> 85
    [] flag = "useCryptoBert"    -> 88
    [] flag = "useNewsAnalysis"  -> 82

\* What analyzeSentiment may hand to generateHuggingFaceResponse.
SentimentLabels == {"positive", "neutral"}
RawConfidences == {0, 60, 90, 100}

\* (confidence * 100).toFixed(1)
ToFixed1(c) == CASE c = 0 -> "0.0" [] c = 60 -> "60.0" [] c = 90 -> "90.0"
                 [] OTHER -> "100.0"

\* sentimentResponses[result.sentiment], with the confidence spliced in.
HFAnalysisText(sentiment, rawConf) ==
  CASE sentiment = "positive" ->
         <<"Market sentiment appears bullish. Confidence: ", ToFixed1(rawConf),
           "%. This suggests favorable market conditions and potential upward price movement.">>
    [] sentiment = "negative" ->
         <<"Market sentiment appears bearish. Confidence: ", ToFixed1(rawConf),
           "%. This indicates caution and potential downward pressure on prices.">>
    [] OTHER ->
         <<"Market sentiment is neutral. Confidence: ", ToFixed1(rawConf),
           "%. Mixed signals suggest a wait-and-see approach may be prudent.">>

\* confidence: result.confidence || 0.7
HFConfidence(rawConf) == IF rawConf = 0 THEN 70 ELSE rawConf

\* The ModelResponse of a successful Gemini call of MultiModelAIService.
AIGeminiResponse ==
  [source |-> "Gemini", confidence |-> 90, text |-> <<"<gemini text>">>]

\* The ModelResponse of a successful generateHuggingFaceResponse.
AIHuggingFaceResponse(flag, sentiment, rawConf) ==
  [source |-> SourceLabel("AI", flag),
   confidence |-> HFConfidence(rawConf),
   text |-> HFAnalysisText(sentiment, rawConf)]

\* The ModelResponse of a successful MultiModelService source call; the
\* generated text may be empty (text || "").
MMResponse(flag, empty) ==
  [source |-> SourceLabel("MM", flag),
   confidence |-> MMConfidence(flag),
   text |-> IF empty THEN <<>>
            ELSE <<CASE flag = "useGemini"        -> "<gemini text>"
                     [] flag = "useFinancialBert" -> "<financialbert text>"
                     [] flag = "useCryptoBert"    -> "<cryptobert text>"
                     [] OTHER                     -> "<newsanalysis text>">>]

NoResponse == [source |-> "", confidence |-> 0, text |-> <<>>]

FallbackText ==
  <<"I'm having trouble connecting to the AI models right now. Please check your API keys and try again. In the meantime, consider checking market data directly from exchanges or financial news sources.">>

\* The synthetic contribution MultiModelAIService pushes when none succeeded.
FallbackResponse ==
  [source |-> "Fallback", confidence |-> 50, text |-> FallbackText]

\* Units of the consensus score: 1200 is 1.0.
ScoreOf_Mutant(sumConf, n) == sumConf * 12

ScoreOf(sumConf, n) == (sumConf * 12) \div n

\* responses.reduce((best, cur) => cur.confidence > best.confidence ? cur : best):
\* the index of the first response of the highest confidence.
RECURSIVE ReduceBest(_, _, _)
ReduceBest(rs, best, k) ==
  IF k > Len(rs) THEN best
  ELSE ReduceBest(rs, IF rs[k].confidence > rs[best].confidence THEN k ELSE best, k + 1)

\* The same choice with ties broken by the order of completion: of the
\* responses of the highest confidence, the one that settled first.
HighestConfidence_Mutant(rs) ==
  LET top == {k \in 1..Len(rs) :
                \A j \in 1..Len(rs) : rs[j].confidence <= rs[k].confidence}
      at(k) == {i \in 1..Len(eOrder) :
                  eStatus[eOrder[i]] = "ok" /\ eResp[eOrder[i]] = rs[k]}
      pos(k) == IF at(k) = {} THEN Len(eOrder) + 1
                ELSE CHOOSE i \in at(k) : \A j \in at(k) : i <= j
  IN CHOOSE k \in top :
       \A j \in top : pos(k) < pos(j) \/ (pos(k) = pos(j) /\ k <= j)

HighestConfidence(rs) == ReduceBest(rs, 1, 2)

\* successfulResponses.find(r => r.source === "Gemini"): its index, or 0.
FindGemini(rs) ==
  IF \E k \in 1..Len(rs) : rs[k].source = "Gemini"
  THEN CHOOSE k \in 1..Len(rs) :
         rs[k].source = "Gemini" /\ \A j \in 1..(k - 1) : rs[j].source # "Gemini"
  ELSE 0

ConfidencesOf(rs) == [k \in 1..Len(rs) |-> rs[k].confidence]

\* Promise.all / Promise.allSettled keep the order of the promises pushed:
\* the successful responses, in invocation order.
CollectedResponses_Mutant(status, resp) ==
  LET settled == SelectSeq(eOrder, LAMBDA f : status[f] = "ok")
  IN [k \in 1..Len(settled) |-> resp[settled[k]]]

CollectedResponses(status, resp) ==
  LET idx == SelectSeq([k \in 1..Len(SourceOrder) |-> k],
                       LAMBDA k : status[SourceOrder[k]] = "ok")
  IN [k \in 1..Len(idx) |-> resp[SourceOrder[idx[k]]]]

\* MultiModelAIService.generateEnsembleResponse, from the await on.
AILabelled(rs) == [k \in 1..Len(rs) |-> <<rs[k].source, ": ">> \o rs[k].text]

AIGenerateEnsemble(valid, weighting) ==
  LET responses == IF Len(valid) = 0 THEN <<FallbackResponse>> ELSE valid
      total == SumSeq(ConfidencesOf(responses))
      p == HighestConfidence(responses)
      others == SelectSeq([k \in 1..Len(responses) |-> k], LAMBDA k : k # p)
      final ==
        IF Len(responses) = 1 THEN responses[1].text
        ELSE IF weighting = "confidence"
        THEN IF total > 0
             THEN responses[p].text \o <<"\n\n--- Additional Analysis ---\n">>
                  \o FlattenSeq([k \in 1..Len(others) |->
                        <<"\n", responses[others[k]].source, ": ">>
                        \o responses[others[k]].text])
             ELSE JoinSeq(AILabelled(responses), <<"\n\n">>)
        ELSE JoinSeq(AILabelled(responses), <<"\n\n">>)
      score ==
        IF Len(responses) = 1 THEN ScoreOf(responses[1].confidence, 1)
        ELSE IF weighting = "confidence"
        THEN IF total > 0 THEN ScoreOf(total, Len(responses)) ELSE 600
        ELSE IF ScoreOf(total, Len(responses)) < 1200
             THEN ScoreOf(total, Len(responses)) ELSE 1200
  IN [kind |-> "result",
      finalResponse |-> final,
      consensusScore |-> score,
      contributions |-> responses,
      primary |-> IF Len(responses) >= 2 /\ weighting = "confidence" /\ total > 0
                  THEN p ELSE 0,
      methodology |-> weighting]

\* MultiModelService.combineResponses
combineResponses(primary, all) ==
  LET others == SelectSeq(all, LAMBDA r : r.source # primary.source)
      otherInsights == JoinSeq([k \in 1..Len(others) |-> others[k].text], <<"\n\n">>)
  IN primary.text
     \o (IF otherInsights # <<>> THEN <<"\n\nAdditional Insights:\n">> \o otherInsights
         ELSE <<>>)
     \o <<"\n\nThis is information, not financial advice.">>

\* MultiModelService.generateEnsembleResponse, from the await on.
MMGenerateEnsemble(successful, weighting) ==
  IF Len(successful) = 0
  THEN [kind |-> "throw",
        finalResponse |-> <<>>, consensusScore |-> 0, contributions |-> <<>>,
        primary |-> 0,
        methodology |-> "No models were able to generate a response"]
  ELSE LET g == FindGemini(successful)
           p == IF weighting = "confidence" THEN HighestConfidence(successful)
                ELSE IF g # 0 THEN g ELSE HighestConfidence(successful)
       IN [kind |-> "result",
           finalResponse |-> combineResponses(successful[p], successful),
           consensusScore |-> ScoreOf(SumSeq(ConfidencesOf(successful)), Len(successful)),
           contributions |-> successful,
           primary |-> p,
           methodology |-> IF weighting = "confidence"
                           THEN "confidence-weighted-ensemble"
                           ELSE "primary-with-support"]

generateEnsembleResponse(impl, valid, weighting) ==
  IF impl = "AI" THEN AIGenerateEnsemble(valid, weighting)
  ELSE MMGenerateEnsemble(valid, weighting)

NoResult ==
  [kind |-> "none", finalResponse |-> <<>>, consensusScore |-> 0,
   contributions |-> <<>>, primary |-> 0, methodology |-> ""]

EnsInit ==
  /\ ePc = "idle"
  /\ eImpl = "AI"
  /\ eEnabled = {}
  /\ eWeighting = "equal"
  /\ eStatus = [f \in SourceFlags |-> "off"]
  /\ eResp = [f \in SourceFlags |-> NoResponse]
  /\ eOrder = <<>>
  /\ eResult = NoResult

\* A caller invokes generateEnsembleResponse: every enabled source's call
\* is started, in the order of the option flags.
EnsCall ==
  /\ UNCHANGED notEns
  /\ ePc = "idle"
  /\ \E impl \in EnsembleImpls, en \in SUBSET SourceFlags, w \in Weightings :
       /\ eImpl' = impl
       /\ eEnabled' = en
       /\ eWeighting' = w
       /\ eStatus' = [f \in SourceFlags |-> IF f \in en THEN "pending" ELSE "off"]
  /\ eResp' = [f \in SourceFlags |-> NoResponse]
  /\ eOrder' = <<>>
  /\ eResult' = NoResult
  /\ ePc' = "running"

\* One pending source call resolves with a response.
EnsSourceSucceeds ==
  /\ UNCHANGED notEns
  /\ ePc = "running"
  /\ \E f \in SourceFlags :
       /\ eStatus[f] = "pending"
       /\ \E r \in (IF eImpl = "MM"
                    THEN {MMResponse(f, e) : e \in BOOLEAN}
                    ELSE IF f = "useGemini" THEN {AIGeminiResponse}
                    ELSE {AIHuggingFaceResponse(f, s, c) :
                            s \in SentimentLabels, c \in RawConfidences}) :
            eResp' = [eResp EXCEPT ![f] = r]
       /\ eStatus' = [eStatus EXCEPT ![f] = "ok"]
       /\ eOrder' = Append(eOrder, f)
  /\ UNCHANGED <<ePc, eImpl, eEnabled, eWeighting, eResult>>

\* One pending source call rejects (the .catch of MultiModelAIService maps
\* it to null; Promise.allSettled of MultiModelService records it).
EnsSourceFails ==
  /\ UNCHANGED notEns
  /\ ePc = "running"
  /\ \E f \in SourceFlags :
       /\ eStatus[f] = "pending"
       /\ eStatus' = [eStatus EXCEPT ![f] = "failed"]
       /\ eOrder' = Append(eOrder, f)
  /\ UNCHANGED <<ePc, eImpl, eEnabled, eWeighting, eResp, eResult>>

\* All calls have settled: the await returns and the merge runs.
EnsMerge ==
  /\ UNCHANGED notEns
  /\ ePc = "running"
  /\ \A f \in SourceFlags : eStatus[f] # "pending"
  /\ eResult' = generateEnsembleResponse(eImpl, CollectedResponses(eStatus, eResp),
                                         eWeighting)
  /\ ePc' = "done"
  /\ UNCHANGED <<eImpl, eEnabled, eWeighting, eStatus, eResp, eOrder>>

EnsNext == EnsCall \/ EnsSourceSucceeds \/ EnsSourceFails \/ EnsMerge

(***************************************************************************)
(* Claims about the ensembler.                                             *)
(***************************************************************************)
EnsDone == ePc = "done"
EnsSucceeded == {f \in SourceFlags : eStatus[f] = "ok"}
EnsAllFailed == eEnabled # {} /\ \A f \in eEnabled : eStatus[f] = "failed"

\* C1: if every enabled source fails, generateEnsembleResponse still
\* resolves to a result (it does not throw) whose contributions hold a
\* fallback entry: the synthetic low-confidence contribution with the canned
\* apologetic message.
C1_AllFailedStillResolves ==
  (EnsDone /\ EnsAllFailed) =>
    /\ eResult.kind = "result"
    /\ \E k \in 1..Len(eResult.contributions) :
         /\ eResult.contributions[k].source = "Fallback"
         /\ eResult.contributions[k].confidence = 50
         /\ eResult.contributions[k].text = FallbackText

\* C2: with exactly one successful contribution, consensusScore is that
\* contribution's confidence and finalResponse is its response text
\* verbatim, nothing prepended or appended.
C2_SingleContributionVerbatim ==
  (EnsDone /\ Cardinality(EnsSucceeded) = 1) =>
    LET f == CHOOSE g \in SourceFlags : eStatus[g] = "ok" IN
      /\ eResult.kind = "result"
      /\ eResult.consensusScore = ScoreOf(eResp[f].confidence, 1)
      /\ eResult.finalResponse = eResp[f].text

\* C10: with weighting "confidence" and two or more contributions, the
\* primary is a contribution of the highest confidence, finalResponse starts
\* with the primary's text, every other contribution appears exactly once
\* labelled by its source, and consensusScore is the mean confidence.
C10_ConfidenceWeightedMerge ==
  (EnsDone /\ eWeighting = "confidence" /\ Cardinality(EnsSucceeded) >= 2) =>
    LET rs == eResult.contributions
        p == eResult.primary
        otherLabels == {rs[k].source : k \in {j \in 1..Len(rs) : j # p}}
    IN /\ eResult.kind = "result"
       /\ p \in 1..Len(rs)
       /\ \A k \in 1..Len(rs) : rs[k].confidence <= rs[p].confidence
       /\ IsPrefix(rs[p].text, eResult.finalResponse)
       /\ \A l \in otherLabels :
            CountTok(eResult.finalResponse, l)
              = Cardinality({k \in 1..Len(rs) : k # p /\ rs[k].source = l})
       /\ eResult.consensusScore
            = ScoreOf(SumSeq(ConfidencesOf(rs)), Len(rs))

\* C16: the consensusScore of every result the ensembler returns lies in
\* [0, 1] (0 to 1200 in the unit of ScoreOf), for both services, every
\* weighting and every set of successful sources, the empty one included.
C16_ConsensusScoreInUnitInterval ==
  (EnsDone /\ eResult.kind = "result") =>
    /\ eResult.consensusScore >= 0
    /\ eResult.consensusScore <= 1200

\* Two contributions of confidence 1.0 merged by confidence: the score is
\* exactly 1.
C16_Witness ==
  /\ EnsDone
  /\ eResult.kind = "result"
  /\ eWeighting = "confidence"
  /\ Len(eResult.contributions) = 2
  /\ \A k \in 1..2 : eResult.contributions[k].confidence = 100
  /\ eResult.consensusScore = 1200

\* The sources that succeeded, in the order of their invocation.
SucceededInOrder == SelectSeq(SourceOrder, LAMBDA f : eStatus[f] = "ok")

\* C20: the merge runs only when every enabled source has settled, whatever
\* sources failed and in whatever order; and when some source succeeded the
\* contributions are the responses of exactly the sources that succeeded,
\* in invocation order.
C20_FailuresAreIsolated ==
  EnsDone =>
    /\ \A f \in SourceFlags : eStatus[f] # "pending"
    /\ \A f \in eEnabled : eStatus[f] \in {"ok", "failed"}
    /\ EnsSucceeded # {} =>
         /\ eResult.kind = "result"
         /\ eResult.contributions =
              [k \in 1..Len(SucceededInOrder) |-> eResp[SucceededInOrder[k]]]

\* The first source to settle failed; two others succeeded afterwards, in
\* the reverse of their invocation order, and both are contributions.
C20_Witness ==
  /\ EnsDone
  /\ Len(eOrder) = 3
  /\ eStatus[eOrder[1]] = "failed"
  /\ eStatus[eOrder[2]] = "ok"
  /\ eStatus[eOrder[3]] = "ok"
  /\ SucceededInOrder = <<eOrder[3], eOrder[2]>>
  /\ Len(eResult.contributions) = 2

\* The contribution the merge starts from, told from the contributions in
\* invocation order alone: with weighting "confidence" the one of the
\* highest confidence, the earliest invoked of equals; otherwise
\* MultiModelService takes Gemini's when there is one, and
\* MultiModelAIService has no primary (nor when all confidences are 0).
FirstOfHighest(rs) ==
  CHOOSE p \in 1..Len(rs) :
    /\ \A k \in 1..Len(rs) : rs[k].confidence <= rs[p].confidence
    /\ \A k \in 1..(p - 1) : rs[k].confidence < rs[p].confidence

PrimaryOf(impl, weighting, rs) ==
  IF impl = "MM"
  THEN IF weighting # "confidence" /\ \E k \in 1..Len(rs) : rs[k].source = "Gemini"
       THEN CHOOSE k \in 1..Len(rs) : rs[k].source = "Gemini"
       ELSE FirstOfHighest(rs)
  ELSE IF Len(rs) >= 2 /\ weighting = "confidence"
          /\ \E k \in 1..Len(rs) : rs[k].confidence > 0
       THEN FirstOfHighest(rs)
       ELSE 0

\* The text merged from the contributions rs around the primary p: the
\* primary's text first, then the others in the order of rs.
TextAround(impl, rs, p) ==
  IF impl = "MM" THEN combineResponses(rs[p], rs)
  ELSE IF Len(rs) = 1 THEN rs[1].text
  ELSE IF p = 0 THEN JoinSeq(AILabelled(rs), <<"\n\n">>)
  ELSE LET others == SelectSeq([k \in 1..Len(rs) |-> k], LAMBDA k : k # p)
       IN rs[p].text \o <<"\n\n--- Additional Analysis ---\n">>
          \o FlattenSeq([k \in 1..Len(others) |->
                <<"\n", rs[others[k]].source, ": ">> \o rs[others[k]].text])

\* C21: the merge is the same for every order in which the source calls
\* complete: the contributions are those of the sources that succeeded in
\* invocation order, the primary is fixed by the contributions alone (of
\* equal confidences the earliest invoked), finalResponse is the primary's
\* text followed by the others in invocation order, and consensusScore is
\* what the contributions in invocation order give.
C21_MergeIgnoresCompletionOrder ==
  (EnsDone /\ EnsSucceeded # {}) =>
    LET rs == [k \in 1..Len(SucceededInOrder) |-> eResp[SucceededInOrder[k]]]
        p == PrimaryOf(eImpl, eWeighting, rs)
    IN /\ eResult.kind = "result"
       /\ eResult.contributions = rs
       /\ eResult.primary = p
       /\ eResult.finalResponse = TextAround(eImpl, rs, p)
       /\ eResult.consensusScore
            = generateEnsembleResponse(eImpl, rs, eWeighting).consensusScore

\* Two contributions of equal confidence, merged by confidence, that
\* completed in the reverse of their invocation order: the primary is the
\* one invoked first, which completed last.
C21_Witness ==
  /\ EnsDone
  /\ eWeighting = "confidence"
  /\ Len(eOrder) = 2
  /\ SucceededInOrder = <<eOrder[2], eOrder[1]>>
  /\ eResp[eOrder[1]].confidence = eResp[eOrder[2]].confidence
  /\ eResp[eOrder[1]].confidence > 0
  /\ eResult.primary = 1
  /\ eResult.contributions[1] = eResp[eOrder[2]]

(***************************************************************************)
(* Resilient fetch: fetchWithTimeout of server/api-clients.ts.  The file   *)
(* holds two revisions of it:                                              *)
(*   1: with DNS endpoint substitution and a 429/503 branch (lines 28-166) *)
(*   2: the plain retry loop (lines 1298-1378).                            *)
(* Times are in milliseconds.                                              *)
(***************************************************************************)
MaxRetries == 5

FetchVersions == {1, 2}

\* The hosts the callers pass: the Binance REST host and any other.
FetchHosts == {"api.binance.com", "generativelanguage.googleapis.com"}

alternativeUrls == <<"api1.binance.com", "api2.binance.com", "api3.binance.com">>

\* How one attempt can fail, by what the caught error's message holds:
\*   dns      "getaddrinfo ENOTFOUND <host>"
\*   http429  "HTTP 429: Too Many Requests"     http503  "HTTP 503: ..."
\*   http500  any other "HTTP <status>: ..."
\*   nonjson  "Invalid response format: expected JSON"
\*   timeout  "Request timeout after <n>ms" / "Manual timeout"
\*   aborted  the AbortError of controller.abort()
FailureKinds == {"dns", "http429", "http503", "http500", "nonjson", "timeout", "aborted"}

IsDnsError(k) == k = "dns"
IsRateLimited(k) == k \in {"http429", "http503"}
IsTimeoutMessage(k) == k = "timeout"

Pow2(n) == IF n = 0 THEN 1 ELSE IF n = 1 THEN 2 ELSE IF n = 2 THEN 4
           ELSE IF n = 3 THEN 8 ELSE IF n = 4 THEN 16 ELSE 32

Min(a, b) == IF a < b THEN a ELSE b

\* for (let i = 0; i < retries; i++)
LoopCondition_Mutant(i, retries) == i <= retries

LoopCondition(i, retries) == i < retries

\* url.replace(hostname, altUrl): replaces the first occurrence of the
\* ORIGINAL hostname in the current url; hostname is computed once, before
\* the loop.
ReplaceHost(urlHost, hostname, alt) == IF urlHost = hostname THEN alt ELSE urlHost

\* Math.min(1000 * Math.pow(2, i), 10000)
RateLimitBackoff(i) == Min(1000 * Pow2(i), 10000)

\* Math.min(Math.pow(2, i) * 2000, 10000)
BaseWait_Mutant(i) == Pow2(i) * 2000

BaseWait(i) == Min(Pow2(i) * 2000, 10000)

\* Math.random() * 1000: a jitter in [0, 1000), in whole milliseconds.
JitterDraws == {0, 999}

MaxJitter == CHOOSE j \in JitterDraws : \A k \in JitterDraws : k <= j

\* baseTimeout / timeout and maxTimeout of the two revisions.
BaseTimeout(ver) == IF ver = 1 THEN 10000 ELSE 15000

MaxTimeout(ver) == IF ver = 1 THEN 20000 ELSE 30000

\* currentTimeout = Math.min(baseTimeout * (i + 1), maxTimeout): the window
\* after which attempt i is abandoned.
CurrentTimeout_Mutant(ver, i) == BaseTimeout(ver) * (i + 1)

CurrentTimeout(ver, i) == Min(BaseTimeout(ver) * (i + 1), MaxTimeout(ver))

\* The longest a wait can last.
LongestWait(w) == w.base + (IF w.jitter THEN MaxJitter ELSE 0)

NoError == [msg |-> "", cause |-> "none"]

\* The error thrown on the final retry, from the caught error.
FinalError(k) ==
  IF IsTimeoutMessage(k) THEN [msg |-> "Service timeout", cause |-> k]
  ELSE [msg |-> "Service error", cause |-> k]

AllAttemptsFailed == [msg |-> "All fetch attempts failed", cause |-> "none"]

\* What the catch block of revision 1 does with a failure of kind k at
\* loop index i: "substitute" (alternate endpoint, wait 1 s, continue),
\* "backoff" (429/503: wait, continue), "throw", or "wait" (backoff with
\* jitter, then the next iteration).
CatchV1(k, i, retries, hostname) ==
  IF IsDnsError(k) /\ hostname = "api.binance.com" /\ i < retries - 1
  THEN "substitute"
  ELSE IF IsRateLimited(k) THEN "backoff"
  ELSE IF i = retries - 1 THEN "throw"
  ELSE "wait"

\* The catch block of revision 2.
CatchV2(k, i, retries) == IF i = retries - 1 THEN "throw" ELSE "wait"

CatchOutcome(ver, k, i, retries, hostname) ==
  IF ver = 1 THEN CatchV1(k, i, retries, hostname) ELSE CatchV2(k, i, retries)

FetchInit ==
  /\ fPc = "idle"
  /\ fVer = 1
  /\ fRetries = 0
  /\ fI = 0
  /\ fHostname = "api.binance.com"
  /\ fUrlHost = "api.binance.com"
  /\ fAttempts = 0
  /\ fHosts = <<>>
  /\ fCauses = <<>>
  /\ fWaits = <<>>
  /\ fErr = NoError
  /\ fJitter = 0
  /\ fLatest = 0

\* fetchWithTimeout(url, options, retries): the loop is entered and the
\* first attempt is sent.
FetchCall ==
  /\ UNCHANGED notFetch
  /\ fPc = "idle"
  /\ \E ver \in FetchVersions, n \in 1..MaxRetries, h \in FetchHosts :
       /\ fVer' = ver
       /\ fRetries' = n
       /\ fHostname' = h
       /\ fUrlHost' = h
       /\ fHosts' = <<h>>
  /\ fI' = 0
  /\ fAttempts' = 1
  /\ fCauses' = <<>>
  /\ fWaits' = <<>>
  /\ fErr' = NoError
  /\ fJitter' = 0
  /\ fLatest' = 0
  /\ fPc' = "attempt"

\* The attempt in flight answers 200 with a JSON body: return response.
\* An attempt ends within its window; fLatest is the latest time, counted
\* from the call, at which the function can be where it is.
FetchAttemptSucceeds ==
  /\ UNCHANGED notFetch
  /\ fPc = "attempt"
  /\ fPc' = "returned"
  /\ fLatest' = fLatest + CurrentTimeout(fVer, fI)
  /\ UNCHANGED <<fVer, fRetries, fI, fHostname, fUrlHost, fAttempts, fHosts,
                 fCauses, fWaits, fErr, fJitter>>

\* The attempt in flight fails: the catch block runs up to its await or
\* its throw.
FetchAttemptFails ==
  /\ UNCHANGED notFetch
  /\ fPc = "attempt"
  /\ \E k \in FailureKinds :
       LET out == CatchOutcome(fVer, k, fI, fRetries, fHostname) IN
       /\ fCauses' = Append(fCauses, k)
       /\ fLatest' = fLatest + CurrentTimeout(fVer, fI)
       /\ IF out = "throw"
          THEN /\ fErr' = FinalError(k)
               /\ fPc' = "thrown"
               /\ UNCHANGED <<fUrlHost, fWaits, fJitter>>
          ELSE /\ fPc' = "wait"
               /\ fJitter' \in (IF out = "wait" THEN JitterDraws ELSE {0})
               /\ fErr' = fErr
               /\ fUrlHost' =
                    IF out = "substitute"
                    THEN ReplaceHost(fUrlHost, fHostname,
                                     alternativeUrls[(fI % Len(alternativeUrls)) + 1])
                    ELSE fUrlHost
               /\ fWaits' = Append(fWaits,
                    [kind |-> out,
                     after |-> fI,
                     base |-> IF out = "substitute" THEN 1000
                              ELSE IF out = "backoff" THEN RateLimitBackoff(fI)
                              ELSE BaseWait(fI),
                     jitter |-> out = "wait"])
  /\ UNCHANGED <<fVer, fRetries, fI, fHostname, fAttempts, fHosts>>

\* The wait ends: i++, and either the next attempt is sent or the loop is
\* over and the function throws "All fetch attempts failed".
FetchWaitElapses ==
  /\ UNCHANGED notFetch
  /\ fPc = "wait"
  /\ fI' = fI + 1
  /\ fJitter' = 0
  /\ fLatest' = fLatest + LongestWait(fWaits[Len(fWaits)])
  /\ IF LoopCondition(fI + 1, fRetries)
     THEN /\ fPc' = "attempt"
          /\ fAttempts' = fAttempts + 1
          /\ fHosts' = Append(fHosts, fUrlHost)
          /\ fErr' = fErr
     ELSE /\ fPc' = "thrown"
          /\ fErr' = AllAttemptsFailed
          /\ UNCHANGED <<fAttempts, fHosts>>
  /\ UNCHANGED <<fVer, fRetries, fHostname, fUrlHost, fCauses, fWaits>>

FetchNext == FetchCall \/ FetchAttemptSucceeds \/ FetchAttemptFails \/ FetchWaitElapses

(***************************************************************************)
(* Claims about the resilient fetch.                                       *)
(***************************************************************************)
\* C5: against a permanently failing endpoint, whatever the kinds of the
\* failures, a call with retries = N makes exactly N attempts and then
\* ends with a failure; at no time has it made more than N attempts.
C5_ExactlyNAttempts ==
  /\ fAttempts <= fRetries
  /\ Len(fCauses) <= fAttempts
  /\ (fPc = "thrown" => (fAttempts = fRetries /\ Len(fCauses) = fRetries))
  /\ (fPc \in {"attempt", "wait"} => fI < fRetries)

\* All N attempts of a call with the largest N failed and the call threw,
\* with a mix of failure kinds that includes a rate-limited one.
C5_Witness ==
  /\ fPc = "thrown"
  /\ fRetries = MaxRetries
  /\ fAttempts = MaxRetries
  /\ \E a, b \in 1..Len(fCauses) : fCauses[a] = "http429" /\ fCauses[b] = "dns"

\* C6: when the retries are exhausted, the error thrown carries the last
\* concrete cause; against an endpoint that always answers 429 it
\* identifies the 429.
C6_ErrorCarriesLastCause ==
  fPc = "thrown" => fErr.cause = fCauses[Len(fCauses)]

\* The base delays and the cap of the two backoff computations.
BaseDelays == {1000, 2000}

BackoffCap == 10000

FollowsBackoffFormula(w) ==
  \E baseDelay \in BaseDelays :
    w.base = Min(Pow2(w.after) * baseDelay, BackoffCap)

RateLimitedOnly == \A k \in 1..Len(fCauses) : IsRateLimited(fCauses[k])

DelaysAreBounded ==
  /\ fJitter >= 0
  /\ fJitter <= 1000
  /\ fPc = "wait" => fWaits[Len(fWaits)].base + fJitter <= BackoffCap + 1000
  /\ \A k \in 1..Len(fWaits) : LongestWait(fWaits[k]) <= BackoffCap + 1000
  /\ RateLimitedOnly =>
       \A a, b \in 1..Len(fWaits) : a < b => fWaits[a].base <= fWaits[b].base

C27_AlternateHostsRotate ==
  \A k \in 1..Len(fWaits) :
    (fWaits[k].kind = "substitute" /\ k + 1 <= Len(fHosts)) =>
      /\ fHosts[k + 1] = alternativeUrls[(fWaits[k].after % Len(alternativeUrls)) + 1]
      /\ fHosts[k + 1] # fHosts[k]

(***************************************************************************)
(* Source adapters (server/api-clients.ts, the first revision in the file, *)
(* lines 223-582 and 1075-1263) and the market context of the /api/chat    *)
(* route (server/routes.ts 474-541).                                       *)
(*                                                                         *)
(* An outcome is [kind, value, origin]: kind is "value" or "throw"; origin *)
(* records where the value came from ("live", or "fallback" for the static *)
(* and sample values) and is not part of what the code returns.            *)
(***************************************************************************)
AdapterOps == {"getTopCryptocurrencies", "getMarketStats", "getCryptoNews",
               "getTrendingCryptoTopics"}

NodeEnvs == {"development", "production"}

\* What the external service does with the adapter's requests: it answers,
\* it answers with a body that holds no usable rows, it is rate limited
\* (429), or it fails otherwise on every attempt.
ExternalOutcomes == {"ok", "okEmpty", "http429", "fail"}

Coin(symbol, name, price, change, pct, volume, cap) ==
  [symbol |-> symbol, name |-> name, price |-> price, priceChange24h |-> change,
   priceChangePercent24h |-> pct, volume24h |-> volume, marketCap |-> cap]

\* The static sample data getTopCryptocurrencies returns in development.
SampleCoins ==
  <<Coin("BTC", "Bitcoin", "94250.00", "1200.00", "1.29", "28500000000", "1850000000000"),
    Coin("ETH", "Ethereum", "3250.00", "45.00", "1.40", "12500000000", "390000000000"),
    Coin("SOL", "Solana", "125.00", "5.00", "4.17", "3200000000", "54000000000"),
    Coin("BNB", "BNB", "420.00", "-8.00", "-1.87", "1800000000", "64000000000")>>

\* The list the catch block of getTopCryptocurrencies returns.
FallbackCoins ==
  <<Coin("BTC", "Bitcoin", "94250.00", "1200.00", "1.29", "28500000000", "1850000000000")>>

\* A list built from a live ticker response (marketCap is always "0").
LiveCoins ==
  <<Coin("BTC", "Bitcoin", "61000.00", "-900.00", "-1.45", "30100000000", "0"),
    Coin("ETH", "Ethereum", "2900.00", "68.00", "2.42", "11000000000", "0")>>

\* The statistics getMarketStats returns in development and from its catch.
FallbackStats ==
  [totalMarketCap |-> "$3.4T", totalVolume24h |-> "$125.8B",
   btcDominance |-> "56.2%", fearGreedIndex |-> 65]

LiveStats ==
  [totalMarketCap |-> "$0.12T", totalVolume24h |-> "$41.1B",
   btcDominance |-> "73.2%", fearGreedIndex |-> 48]

LiveNews ==
  <<[title |-> "<title>", description |-> "<description>", content |-> "<content>",
     source |-> "<source name>", url |-> "<url>"]>>

LiveTopics == <<[topic_id |-> "<id>", content |-> "<tweet>", user_handle |-> "<user>"]>>

Value(v, origin) == [kind |-> "value", value |-> v, origin |-> origin]
Thrown(msg) == [kind |-> "throw", value |-> msg, origin |-> "none"]
Pending == [kind |-> "pending", value |-> "", origin |-> "none"]

\* BinanceClient.getTopCryptocurrencies
getTopCryptocurrencies(env, ext) ==
  IF env = "development" THEN Value(SampleCoins, "fallback")
  ELSE IF ext = "ok" THEN Value(LiveCoins, "live")
  ELSE IF ext = "okEmpty" THEN Value(<<>>, "live")
  ELSE Value(FallbackCoins, "fallback")

\* BinanceClient.getMarketStats
getMarketStats(env, ext) ==
  IF env = "development" THEN Value(FallbackStats, "fallback")
  ELSE IF ext \in {"ok", "okEmpty"} THEN Value(LiveStats, "live")
  ELSE Value(FallbackStats, "fallback")

\* NewsClient.getCryptoNews
getCryptoNews(ext) ==
  IF ext = "ok" THEN Value(LiveNews, "live")
  ELSE IF ext = "okEmpty" THEN Value(<<>>, "live")
  ELSE Thrown("Failed to fetch news data")

\* TwitterClient.getTrendingCryptoTopics, one pass: on a 429 it waits 15
\* minutes and calls itself again ("retry"); any other failure is rethrown.
getTrendingCryptoTopics(ext) ==
  IF ext = "ok" THEN Value(LiveTopics, "live")
  ELSE IF ext = "okEmpty" THEN Thrown("Invalid response format from Twitter API")
  ELSE IF ext = "http429" THEN [kind |-> "retry", value |-> "rate limit", origin |-> "none"]
  ELSE Thrown("Twitter API error")

AdapterResult(op, env, ext) ==
  CASE op = "getTopCryptocurrencies" -> getTopCryptocurrencies(env, ext)
    [] op = "getMarketStats" -> getMarketStats(env, ext)
    [] op = "getCryptoNews" -> getCryptoNews(ext)
    [] OTHER -> getTrendingCryptoTopics(ext)

\* (x as any)?.source === "fallback"
SourceIsFallback(x) == "source" \in DOMAIN x /\ x.source = "fallback"

NoContext == [built |-> FALSE, isFallback |-> FALSE, fromStorage |-> FALSE]

AdInit ==
  /\ aPc = "idle"
  /\ aOp = "getTopCryptocurrencies"
  /\ aEnv = "production"
  /\ aOut = Pending
  /\ rPc = "idle"
  /\ rCoins = Pending
  /\ rStats = Pending
  /\ rCtx = NoContext

\* A caller invokes one adapter operation.
AdapterCall ==
  /\ UNCHANGED notAd
  /\ aPc = "idle"
  /\ \E op \in AdapterOps, env \in NodeEnvs : aOp' = op /\ aEnv' = env
  /\ aPc' = "calling"
  /\ aOut' = Pending
  /\ UNCHANGED <<rPc, rCoins, rStats, rCtx>>

\* The external service has answered, or has failed on every attempt.
AdapterSettles ==
  /\ UNCHANGED notAd
  /\ aPc = "calling"
  /\ \E ext \in ExternalOutcomes :
       LET out == AdapterResult(aOp, aEnv, ext) IN
       IF out.kind = "retry"
       THEN UNCHANGED <<aPc, aOut>>
       ELSE /\ aOut' = [out EXCEPT !.origin =
                          IF out.kind = "value" /\ ext \notin {"ok", "okEmpty"}
                          THEN "fallback" ELSE out.origin]
            /\ aPc' = IF ext \in {"ok", "okEmpty"} THEN "doneLive" ELSE "doneFailed"
  /\ UNCHANGED <<aOp, aEnv, rPc, rCoins, rStats, rCtx>>

\* POST /api/chat without a MARKET_ANALYSIS context: both Binance adapter
\* calls are started.
RouteFetchContext ==
  /\ UNCHANGED notAd
  /\ rPc = "idle"
  /\ rPc' = "awaiting"
  /\ UNCHANGED <<aPc, aOp, aEnv, aOut, rCoins, rStats, rCtx>>

RouteCoinsResolve ==
  /\ UNCHANGED notAd
  /\ rPc = "awaiting" /\ rCoins.kind = "pending"
  /\ \E env \in NodeEnvs, ext \in ExternalOutcomes \ {"http429"} :
       rCoins' = getTopCryptocurrencies(env, ext)
  /\ UNCHANGED <<aPc, aOp, aEnv, aOut, rPc, rStats, rCtx>>

RouteStatsResolve ==
  /\ UNCHANGED notAd
  /\ rPc = "awaiting" /\ rStats.kind = "pending"
  /\ \E env \in NodeEnvs, ext \in ExternalOutcomes \ {"http429"} :
       rStats' = getMarketStats(env, ext)
  /\ UNCHANGED <<aPc, aOp, aEnv, aOut, rPc, rCoins, rCtx>>

\* Promise.all has resolved: the data is validated and marketContext built;
\* an empty list throws into the catch, which reads the storage instead
\* and sets isFallback itself.
RouteBuildContext ==
  /\ UNCHANGED notAd
  /\ rPc = "awaiting" /\ rCoins.kind = "value" /\ rStats.kind = "value"
  /\ rCtx' =
       IF Len(rCoins.value) = 0
       THEN [built |-> TRUE, isFallback |-> TRUE, fromStorage |-> TRUE]
       ELSE [built |-> TRUE,
             isFallback |-> SourceIsFallback(rCoins.value[1])
                            \/ SourceIsFallback(rStats.value),
             fromStorage |-> FALSE]
  /\ rPc' = "done"
  /\ UNCHANGED <<aPc, aOp, aEnv, aOut, rCoins, rStats>>

AdNext ==
  \/ AdapterCall \/ AdapterSettles
  \/ RouteFetchContext \/ RouteCoinsResolve \/ RouteStatsResolve \/ RouteBuildContext

(***************************************************************************)
(* Claims about the adapters.                                              *)
(***************************************************************************)
AdapterDone == aPc \in {"doneLive", "doneFailed"}

\* A value carries the fallback marker: its first row (a list) or the
\* value itself (the statistics) has source = "fallback".
Marked(op, v) ==
  IF op = "getMarketStats" THEN SourceIsFallback(v)
  ELSE Len(v) > 0 /\ SourceIsFallback(v[1])

\* C3: a static fallback or sample value is never passed on as live: the
\* value an adapter returns in place of live data carries a fallback
\* marker, and the chat route's isFallback is set whenever the market
\* context is built from such a value.
C3_FallbackIsMarked ==
  /\ (AdapterDone /\ aOut.kind = "value" /\ aOut.origin = "fallback")
       => Marked(aOp, aOut.value)
  /\ (rPc = "done" /\ (rCoins.origin = "fallback" \/ rStats.origin = "fallback"))
       => rCtx.isFallback

\* The static values the code defines for an operation's failure.
StaticFallbacks(op) ==
  CASE op = "getTopCryptocurrencies" -> {FallbackCoins}
    [] op = "getMarketStats" -> {FallbackStats}
    [] OTHER -> {}

\* C4: every adapter operation whose external service fails on every
\* attempt resolves, without throwing, to its static fallback value.
C4_AdaptersNeverThrow ==
  (aPc = "doneFailed" /\ aEnv = "production") =>
    /\ aOut.kind = "value"
    /\ aOut.value \in StaticFallbacks(aOp)

(***************************************************************************)
(* MarketService (server/api-clients.ts 2804-3010) over the MemStorage     *)
(* cache.  Times are milliseconds.  Every await is a step boundary: the    *)
(* code up to the next await runs as one action.  Arrays are objects: the  *)
(* heap mHeap maps a reference (1, 2, ...) to the array's contents, and    *)
(* the cache, the tasks' locals and the results hold references; 0 is      *)
(* null.  Each enhanced coin records in gen the refresh that built it and  *)
(* in at the position the refresh gave it; mPublished lists, in the order  *)
(* of the calls of setCachedMarketData, when the refresh that made each    *)
(* call had started.  A task records in since when its refresh started and *)
(* in held whether getCachedMarketData had handed it the cached array.     *)
(***************************************************************************)
UPDATE_INTERVAL == 5000

CacheTtl == 60000

\* Date.now() when the service is constructed; any value above CacheTtl.
StartTime == 2 * CacheTtl

\* How far the clock moves between two steps.
TickSteps == {1000, UPDATE_INTERVAL, CacheTtl}

MaxTicks == 2

\* Task 0 is the interval callback of startUpdates; task 1 is a caller of
\* getMarketData, which calls again once its call has returned.
TimerTask == 0
ReaderIds == {1}
TaskIds == {TimerTask} \cup ReaderIds

\* parseFloat of the percentages that occur, in hundredths.
ParseFloat100(str) ==
  CASE str = "1.29" -> 129
    [] str = "1.40" -> 140
    [] str = "4.17" -> 417
    [] str = "-1.87" -> -187
    [] str = "-1.45" -> -145
    [] str = "2.42" -> 242
    [] str = "-5.00" -> -500
    [] str = "-3.00" -> -300
    [] str = "0.50" -> 50
    [] str = "3.00" -> 300
    [] str = "5.00" -> 500
    [] OTHER -> 0

Abs(n) == IF n < 0 THEN 0 - n ELSE n

\* Closes of the candles a successful fetchKlines yields.
CandleCloses == <<100, 104, 101>>

\* MarketService.fetchCandleData: the closes, or [] when the fetch failed.
fetchCandleData(outcome) == IF outcome = "ok" THEN CandleCloses ELSE <<>>

LastN(s, n) == IF Len(s) <= n THEN s ELSE SubSeq(s, Len(s) - n + 1, Len(s))

Max0(n) == IF n > 0 THEN n ELSE 0

Gains(closes) == [i \in 1..(Len(closes) - 1) |-> Max0(closes[i + 1] - closes[i])]

Losses(closes) == [i \in 1..(Len(closes) - 1) |-> Max0(closes[i] - closes[i + 1])]

\* MarketService.calculateTechnicalIndicators, values in hundredths.  With
\* G and L the sums of the gains and the losses over n differences,
\* rsi = 100 - 100 / (1 + (G/n) / ((L/n) || 1)).
calculateTechnicalIndicators_Mutant(candles) ==
  LET G == SumSeq(Gains(candles))
      L == SumSeq(Losses(candles))
      n == Len(candles) - 1
  IN [rsi |-> IF n <= 0 THEN 0
              ELSE IF L = 0 THEN (10000 * G) \div (n + G)
              ELSE (10000 * G) \div (L + G),
      sma20 |-> (SumSeq(LastN(candles, 20)) * 100) \div 20,
      ema50 |-> (SumSeq(LastN(candles, 50)) * 100) \div 50]

calculateTechnicalIndicators(candles) ==
  IF Len(candles) = 0
  THEN [rsi |-> 5000, sma20 |-> 0, ema50 |-> 0]
  ELSE LET G == SumSeq(Gains(candles))
           L == SumSeq(Losses(candles))
           n == Len(candles) - 1
       IN [rsi |-> IF n = 0 THEN 0
                   ELSE IF L = 0 THEN (10000 * G) \div (n + G)
                   ELSE (10000 * G) \div (L + G),
           sma20 |-> (SumSeq(LastN(candles, 20)) * 100) \div 20,
           ema50 |-> (SumSeq(LastN(candles, 50)) * 100) \div 50]

CoinSentiment(pct100) ==
  IF pct100 >= 500 THEN "bullish" ELSE IF pct100 <= -500 THEN "bearish" ELSE "neutral"

\* One element of enhancedData.
EnhanceCoin(coin, outcome, gen, at) ==
  [symbol |-> coin.symbol,
   price |-> coin.price,
   priceChangePercent24h |-> coin.priceChangePercent24h,
   candles |-> fetchCandleData(outcome),
   sentiment |-> CoinSentiment(ParseFloat100(coin.priceChangePercent24h)),
   technicalIndicators |-> calculateTechnicalIndicators(fetchCandleData(outcome)),
   gen |-> gen,
   at |-> at]

EnhanceAll(coins, outcomes, gen) ==
  [i \in 1..Len(coins) |-> EnhanceCoin(coins[i], outcomes[i], gen, i)]

\* MarketService.calculateGlobalSentiment: mean percentage >= 3, <= -3.
calculateGlobalSentiment_Mutant(coins) ==
  LET total == SumSeq([i \in 1..Len(coins) |->
                         ParseFloat100(coins[i].priceChangePercent24h)])
  IN IF Len(coins) = 0 THEN "neutral"
     ELSE IF total >= 500 * Len(coins) THEN "bullish"
     ELSE IF total <= (0 - 500) * Len(coins) THEN "bearish"
     ELSE "neutral"

calculateGlobalSentiment(coins) ==
  LET total == SumSeq([i \in 1..Len(coins) |->
                         ParseFloat100(coins[i].priceChangePercent24h)])
  IN IF Len(coins) = 0 THEN "neutral"
     ELSE IF total >= 300 * Len(coins) THEN "bullish"
     ELSE IF total <= (0 - 300) * Len(coins) THEN "bearish"
     ELSE "neutral"

\* Insert x into a sequence sorted by descending |percentage|, after the
\* elements that compare equal (Array.prototype.sort is stable).
RECURSIVE InsertByMove(_, _)
InsertByMove(x, s) ==
  IF s = <<>> THEN <<x>>
  ELSE IF Abs(ParseFloat100(x.priceChangePercent24h))
            > Abs(ParseFloat100(Head(s).priceChangePercent24h))
       THEN <<x>> \o s
       ELSE <<Head(s)>> \o InsertByMove(x, Tail(s))

RECURSIVE SortByMove(_)
SortByMove(s) ==
  IF s = <<>> THEN <<>>
  ELSE InsertByMove(s[Len(s)], SortByMove(SubSeq(s, 1, Len(s) - 1)))

\* MarketService.getTrendingSymbols: the symbols returned.  The sort it
\* applies works on the array it is given (see UpdateReturns).
getTrendingSymbols(coins) ==
  LET sorted == SortByMove(coins)
  IN [i \in 1..Min(3, Len(sorted)) |-> sorted[i].symbol]

\* What MemStorage.getMarketStats computes from the rows the storage is
\* constructed with.
StorageStats ==
  [totalMarketCap |-> "$1.23T", totalVolume24h |-> "$43.3B",
   btcDominance |-> "69.1%", fearGreedIndex |-> 64]

\* Statistics together with the refresh they come from (0: from none).
StatsOf(ms, gen) ==
  [totalMarketCap |-> ms.totalMarketCap, totalVolume24h |-> ms.totalVolume24h,
   btcDominance |-> ms.btcDominance, fearGreedIndex |-> ms.fearGreedIndex,
   gen |-> gen]

NoStats == StatsOf(StorageStats, -1)

\* MemStorage.getCachedMarketData
getCachedMarketData(now) ==
  IF cachedMarketData # 0 /\ (now - cacheTimestamp) < CacheTtl
  THEN cachedMarketData ELSE 0

\* MemStorage.setCachedMarketData: the pair <<heap, cachedMarketData>>
\* after the call; the array itself is left as it is.
setCachedMarketData_Merging(heap, cached, data) ==
  IF cached = 0 THEN <<heap, data>>
  ELSE <<[heap EXCEPT ![cached] =
            <<heap[data][1]>> \o Tail(heap[cached])], cached>>

setCachedMarketData(heap, cached, data) == <<heap, data>>

\* storage.setMarketStats is called by updateMarketData but is not part of
\* the storage sources: it is taken to replace what getMarketStats yields.
setMarketStats(stats) == stats

\* MemStorage.getMarketStats
MemStorage_getMarketStats == marketStats

FreeTask ==
  [kind |-> "free", pc |-> "none", cachedData |-> 0, stats |-> NoStats,
   md |-> <<>>, ms |-> NoStats, ref |-> 0, since |-> 0, held |-> FALSE,
   result |-> [kind |-> "none"]]

\* What Binance does during one refresh: it answers the adapters' calls,
\* or it fails them all.
BinanceOutcomes == {"ok", "fail"}
CandleOutcomes == {"ok", "failed"}

\* The arrays still referred to by the cache, a local or a result; the
\* contents of an array nothing refers to are dropped from the heap.
Referenced(r, cached, tasks) ==
  \/ r = cached
  \/ \E t \in TaskIds :
       \/ tasks[t].cachedData = r
       \/ tasks[t].ref = r
       \/ (tasks[t].result.kind = "snapshot" /\ tasks[t].result.coins = r)

Collect(heap, cached, tasks) ==
  [r \in 1..Len(heap) |-> IF Referenced(r, cached, tasks) THEN heap[r] ELSE <<>>]

MarketInit ==
  /\ mNow = StartTime
  /\ mTicks = 0
  /\ mTimerDue = StartTime + UPDATE_INTERVAL
  /\ lastUpdate = 0
  /\ cachedMarketData = 0
  /\ cacheTimestamp = 0
  /\ marketStats = StatsOf(StorageStats, 0)
  /\ mHeap = <<>>
  /\ mTasks = [t \in TaskIds |-> FreeTask]
  /\ mPublished = <<>>

\* updateMarketData up to its first await: the early return, or
\* lastUpdate = now and the two adapter calls.
EnterUpdate(t, task) ==
  IF mNow - lastUpdate < UPDATE_INTERVAL
  THEN /\ mTasks' = [mTasks EXCEPT ![t] =
            IF task.kind = "timer" THEN FreeTask
            ELSE [task EXCEPT !.pc = "done", !.result = [kind |-> "undefined"]]]
       /\ UNCHANGED lastUpdate
  ELSE /\ lastUpdate' = mNow
       /\ mTasks' = [mTasks EXCEPT ![t] =
            [task EXCEPT !.pc = "adapters", !.since = mNow]]

\* Time passes.
Tick ==
  /\ UNCHANGED notMarket
  /\ UNCHANGED mPublished
  /\ mTicks < MaxTicks
  /\ \E d \in TickSteps : mNow' = mNow + d
  /\ mTicks' = mTicks + 1
  /\ UNCHANGED <<mTimerDue, lastUpdate, cachedMarketData, cacheTimestamp,
                 marketStats, mHeap, mTasks>>

\* The setInterval callback of startUpdates runs, UPDATE_INTERVAL or more
\* after its previous run; the timer is rearmed from the time of this run.
TimerFires ==
  /\ UNCHANGED notMarket
  /\ UNCHANGED mPublished
  /\ mNow >= mTimerDue
  /\ mTasks[TimerTask].kind = "free"
  /\ EnterUpdate(TimerTask, [FreeTask EXCEPT !.kind = "timer"])
  /\ mTimerDue' = mNow + UPDATE_INTERVAL
  /\ UNCHANGED <<mNow, mTicks, cachedMarketData, cacheTimestamp, marketStats, mHeap>>

\* A caller invokes getMarketData: storage.getCachedMarketData() is called
\* and awaited.
GetMarketDataCall ==
  /\ UNCHANGED notMarket
  /\ UNCHANGED mPublished
  /\ \E t \in ReaderIds :
       /\ mTasks[t].kind = "free"
       /\ mTasks' = [mTasks EXCEPT ![t] =
            [FreeTask EXCEPT !.kind = "reader", !.pc = "awaitCached",
                             !.cachedData = getCachedMarketData(mNow)]]
  /\ UNCHANGED <<mNow, mTicks, mTimerDue, lastUpdate, cachedMarketData,
                 cacheTimestamp, marketStats, mHeap>>

\* storage.getMarketStats() is called and awaited.
GetMarketDataReadsStats ==
  /\ UNCHANGED notMarket
  /\ UNCHANGED mPublished
  /\ \E t \in TaskIds :
       /\ mTasks[t].pc = "awaitCached"
       /\ mTasks' = [mTasks EXCEPT ![t] =
            [@ EXCEPT !.pc = "awaitStats", !.stats = MemStorage_getMarketStats]]
  /\ UNCHANGED <<mNow, mTicks, mTimerDue, lastUpdate, cachedMarketData,
                 cacheTimestamp, marketStats, mHeap>>

\* The freshness test: the cached pair is returned, or updateMarketData is
\* entered and its result returned.
GetMarketDataDecides ==
  /\ UNCHANGED notMarket
  /\ UNCHANGED mPublished
  /\ \E t \in TaskIds :
       /\ mTasks[t].pc = "awaitStats"
       /\ IF mTasks[t].cachedData # 0 /\ mNow - lastUpdate < UPDATE_INTERVAL
          THEN /\ mTasks' = [mTasks EXCEPT ![t] =
                    [@ EXCEPT !.pc = "done",
                              !.result = [kind |-> "snapshot",
                                          coins |-> mTasks[t].cachedData,
                                          stats |-> mTasks[t].stats]]]
               /\ UNCHANGED lastUpdate
          ELSE EnterUpdate(t, [mTasks[t] EXCEPT !.cachedData = 0,
                                                !.held = mTasks[t].cachedData # 0])
  /\ mHeap' = Collect(mHeap, cachedMarketData, mTasks')
  /\ UNCHANGED <<mNow, mTicks, mTimerDue, cachedMarketData, cacheTimestamp,
                 marketStats>>

\* Promise.all of the two Binance adapter calls resolves (the adapters
\* answer with their fallback values when Binance fails); the candle
\* fetches of all coins are started.
UpdateAdaptersResolve ==
  /\ UNCHANGED notMarket
  /\ UNCHANGED mPublished
  /\ \E t \in TaskIds :
       /\ mTasks[t].pc = "adapters"
       /\ \E ext \in BinanceOutcomes :
            mTasks' = [mTasks EXCEPT ![t] =
              [@ EXCEPT !.pc = "candles",
                        !.md = getTopCryptocurrencies("production", ext).value,
                        !.ms = StatsOf(getMarketStats("production", ext).value, 0)]]
  /\ UNCHANGED <<mNow, mTicks, mTimerDue, lastUpdate, cachedMarketData,
                 cacheTimestamp, marketStats, mHeap>>

\* Every candle fetch has settled: enhancedData is a new array, and
\* storage.setCachedMarketData(enhancedData) is called and awaited.
UpdateCachesCoins ==
  /\ UNCHANGED notMarket
  /\ \E t \in TaskIds :
       /\ mTasks[t].pc = "candles"
       /\ \E outcomes \in [1..Len(mTasks[t].md) -> CandleOutcomes] :
            LET ref == Len(mHeap) + 1
                heap == Append(mHeap, EnhanceAll(mTasks[t].md, outcomes, ref))
                stored == setCachedMarketData(heap, cachedMarketData, ref)
            IN /\ cachedMarketData' = stored[2]
               /\ cacheTimestamp' = mNow
               /\ mPublished' = Append(mPublished, mTasks[t].since)
               /\ mTasks' = [mTasks EXCEPT ![t] =
                    [@ EXCEPT !.pc = "awaitSetCached", !.ref = ref, !.md = <<>>]]
               /\ mHeap' = Collect(stored[1], cachedMarketData', mTasks')
  /\ UNCHANGED <<mNow, mTicks, mTimerDue, lastUpdate, marketStats>>

\* storage.setMarketStats(marketStats) is called and awaited.
UpdateStoresStats ==
  /\ UNCHANGED notMarket
  /\ UNCHANGED mPublished
  /\ \E t \in TaskIds :
       /\ mTasks[t].pc = "awaitSetCached"
       /\ marketStats' = setMarketStats(StatsOf(mTasks[t].ms, mTasks[t].ref))
       /\ mTasks' = [mTasks EXCEPT ![t] = [@ EXCEPT !.pc = "awaitSetStats"]]
  /\ UNCHANGED <<mNow, mTicks, mTimerDue, lastUpdate, cachedMarketData,
                 cacheTimestamp, mHeap>>

\* updateMarketData builds its result: globalSentiment, then trending,
\* whose sort reorders enhancedData itself.  The timer callback drops the
\* result; getMarketData returns it.
UpdateReturns ==
  /\ UNCHANGED notMarket
  /\ UNCHANGED mPublished
  /\ \E t \in TaskIds :
       /\ mTasks[t].pc = "awaitSetStats"
       /\ LET ref == mTasks[t].ref
              coins == mHeap[ref]
              stats == [totalMarketCap |-> mTasks[t].ms.totalMarketCap,
                        totalVolume24h |-> mTasks[t].ms.totalVolume24h,
                        btcDominance |-> mTasks[t].ms.btcDominance,
                        fearGreedIndex |-> mTasks[t].ms.fearGreedIndex,
                        globalSentiment |-> calculateGlobalSentiment(coins),
                        trending |-> getTrendingSymbols(coins),
                        gen |-> ref]
          IN /\ mTasks' = [mTasks EXCEPT ![t] =
                  IF mTasks[t].kind = "timer" THEN FreeTask
                  ELSE [@ EXCEPT !.pc = "done", !.ref = 0, !.ms = NoStats,
                                 !.result = [kind |-> "snapshot", coins |-> ref,
                                             stats |-> stats]]]
             /\ mHeap' = Collect([mHeap EXCEPT ![ref] = SortByMove(coins)],
                                 cachedMarketData, mTasks')
  /\ UNCHANGED <<mNow, mTicks, mTimerDue, lastUpdate, cachedMarketData,
                 cacheTimestamp, marketStats>>

\* The caller of getMarketData has taken the result.
GetMarketDataReturns ==
  /\ UNCHANGED notMarket
  /\ UNCHANGED mPublished
  /\ \E t \in TaskIds :
       /\ mTasks[t].kind = "reader" /\ mTasks[t].pc = "done"
       /\ mTasks' = [mTasks EXCEPT ![t] = FreeTask]
  /\ mHeap' = Collect(mHeap, cachedMarketData, mTasks')
  /\ UNCHANGED <<mNow, mTicks, mTimerDue, lastUpdate, cachedMarketData,
                 cacheTimestamp, marketStats>>

MarketNext ==
  \/ Tick \/ TimerFires
  \/ GetMarketDataCall \/ GetMarketDataReadsStats \/ GetMarketDataDecides
  \/ UpdateAdaptersResolve \/ UpdateCachesCoins \/ UpdateStoresStats
  \/ UpdateReturns \/ GetMarketDataReturns

(***************************************************************************)
(* Claims about the market snapshot.                                       *)
(***************************************************************************)
ReaderDone(t) == mTasks[t].kind = "reader" /\ mTasks[t].pc = "done"

HasSnapshot(t) == ReaderDone(t) /\ mTasks[t].result.kind = "snapshot"

\* The refreshes the entries of an array come from.
GensOf(coins) == {coins[i].gen : i \in 1..Len(coins)}

\* C7: every call of getMarketData resolves to a snapshot with coins and
\* stats, never to undefined, whatever the timer and other callers do.
C7_AlwaysASnapshot ==
  \A t \in TaskIds : ReaderDone(t) => mTasks[t].result.kind = "snapshot"

\* C8: every coins array a reader obtains, and the array the cache holds,
\* was produced entirely by one refresh: its entries never mix refreshes.
C8_CoinsFromOneRefresh ==
  /\ \A t \in TaskIds :
       HasSnapshot(t) => Cardinality(GensOf(mHeap[mTasks[t].result.coins])) = 1
  /\ cachedMarketData # 0 => Cardinality(GensOf(mHeap[cachedMarketData])) = 1

\* A reader was handed the cached array of an earlier refresh while a
\* later refresh has already replaced the cache and is still running.
C8_Witness ==
  \E t, u \in TaskIds :
    /\ HasSnapshot(t)
    /\ mTasks[t].result.coins # cachedMarketData
    /\ mTasks[u].pc = "awaitSetCached"
    /\ mTasks[u].ref = cachedMarketData
    /\ Len(mHeap[mTasks[t].result.coins]) > 1
    /\ Len(mHeap[cachedMarketData]) > 1

\* The placeholders, and the indicators of the closes 100, 104, 101:
\* rsi = 100 * 4 / (4 + 3), sma20 = 305 / 20, ema50 = 305 / 50.
NeutralPlaceholders == [rsi |-> 5000, sma20 |-> 0, ema50 |-> 0]

IndicatorsOfCloses == [rsi |-> 5714, sma20 |-> 1525, ema50 |-> 610]

IndicatorsAsClaimed(coins) ==
  \A i \in 1..Len(coins) :
    /\ coins[i].candles = <<>> => coins[i].technicalIndicators = NeutralPlaceholders
    /\ coins[i].candles # <<>> => coins[i].technicalIndicators = IndicatorsOfCloses

\* C15: a refresh whose candle fetch failed for some symbol still stores its
\* array and hands it out; in it the symbols without candles carry the
\* placeholders rsi 50, sma20 0, ema50 0, and every other symbol the
\* indicators of its own candles.
C15_FailedCandlesGetPlaceholders ==
  /\ cachedMarketData # 0 => IndicatorsAsClaimed(mHeap[cachedMarketData])
  /\ \A t \in TaskIds :
       /\ mTasks[t].pc \in {"awaitSetCached", "awaitSetStats"} =>
            /\ mTasks[t].ref # 0
            /\ mHeap[mTasks[t].ref] # <<>>
            /\ IndicatorsAsClaimed(mHeap[mTasks[t].ref])
       /\ HasSnapshot(t) => IndicatorsAsClaimed(mHeap[mTasks[t].result.coins])

\* A reader obtained the array of a refresh of the live ticker in which the
\* candle fetch failed for one symbol and succeeded for the other.
C15_Witness ==
  \E t \in TaskIds :
    /\ HasSnapshot(t)
    /\ LET coins == mHeap[mTasks[t].result.coins]
       IN /\ Len(coins) = Len(LiveCoins)
          /\ \E i, j \in 1..Len(coins) :
               /\ coins[i].candles = <<>>
               /\ coins[i].technicalIndicators = NeutralPlaceholders
               /\ coins[j].candles # <<>>
               /\ coins[j].technicalIndicators = IndicatorsOfCloses

\* C22: the cache never goes back to an older refresh: the refreshes store
\* their arrays in the order in which they started.
C22_SnapshotNeverRegresses ==
  \A i, j \in 1..Len(mPublished) : i < j => mPublished[i] < mPublished[j]

\* C23: an array a refresh has stored in the cache stays as it was stored:
\* every array of the heap, whether the cache or a reader holds it, has each
\* entry at the position the refresh gave it.
C23_PublishedNeverMutated ==
  \A r \in 1..Len(mHeap) :
    \A i \in 1..Len(mHeap[r]) : mHeap[r][i].at = i /\ mHeap[r][i].gen = r

\* C25: getMarketData refreshes exactly when the cached array is older than
\* CacheTtl: a call that was handed the cached array (younger than CacheTtl)
\* does not start a refresh, and an array a call returns from the cache is
\* younger than CacheTtl.
C25_RefreshExactlyWhenStale ==
  \A t \in ReaderIds :
    /\ ~(mTasks[t].held /\ mTasks[t].pc = "adapters")
    /\ (HasSnapshot(t) /\ mTasks[t].cachedData # 0
          /\ mTasks[t].cachedData = cachedMarketData)
         => mNow - cacheTimestamp < CacheTtl

\* C9: the coins and the stats a reader obtains come from the same
\* refresh.
C9_CoinsAndStatsSameRefresh ==
  \A t \in TaskIds :
    HasSnapshot(t) => GensOf(mHeap[mTasks[t].result.coins]) = {mTasks[t].result.stats.gen}

(***************************************************************************)
(* Sentiment analysis (src/unnamed/part_000, lines 1-657).                 *)
(* A text is a sequence of lower-case tokens; " " is a whitespace token.   *)
(* Ratios, confidences and scores are in thousandths (0.65 = 650).         *)
(***************************************************************************)
POSITIVE_KEYWORDS == {"bullish", "rally", "surge", "gain"}

NEGATIVE_KEYWORDS == {"bearish", "crash", "dump", "fear"}

\* Tokens on which priceUpRegex / priceDownRegex match.
PriceUpTokens == {"+"}

PriceDownTokens == {"-"}

SampleTexts ==
  { <<>>, <<" ">>,
    <<"btc", "rally", "surge">>,
    <<"crash", "fear", "rally">>,
    <<"rally", "crash">>,
    <<"price", "+">> }

Trim(text) == SelectSeq(text, LAMBDA tok : tok # " ")

CountIn(text, words) == Len(SelectSeq(text, LAMBDA tok : tok \in words))

NeutralKeywordVerdict ==
  [sentiment |-> "neutral", confidence |-> 500, method |-> "keyword",
   scores |-> <<[label |-> "positive", score |-> 0],
                [label |-> "negative", score |-> 0],
                [label |-> "neutral", score |-> 1000]>>]

PriceVerdict(label) ==
  [sentiment |-> label, confidence |-> 600, method |-> "keyword",
   scores |-> <<[label |-> "positive",
                 score |-> IF label = "positive" THEN 600 ELSE 100],
                [label |-> "negative",
                 score |-> IF label = "negative" THEN 600 ELSE 100],
                [label |-> "neutral", score |-> 300]>>]

\* The branch taken once at least one keyword matched; p and n are the counts.
KeywordRatioVerdict(p, n) ==
  LET t == p + n
      posRatio == (1000 * p) \div t
      negRatio == (1000 * n) \div t
      diff == Abs(posRatio - negRatio)
      sentiment ==
        IF 100 * p > 65 * t THEN "positive"
        ELSE IF 100 * n > 65 * t THEN "negative"
        ELSE IF 10 * Abs(p - n) < 2 * t THEN "neutral"
        ELSE IF p > n THEN "positive" ELSE "negative"
      confidence ==
        IF 100 * p > 65 * t THEN Min(850, 500 + (400 * p) \div t)
        ELSE IF 100 * n > 65 * t THEN Min(850, 500 + (400 * n) \div t)
        ELSE IF 10 * Abs(p - n) < 2 * t THEN 700
        ELSE Min(750, 500 + (3 * diff) \div 10)
  IN [sentiment |-> sentiment, confidence |-> confidence,
      method |-> "keyword",
      scores |-> <<[label |-> "positive", score |-> posRatio],
                   [label |-> "negative", score |-> negRatio],
                   [label |-> "neutral",
                    score |-> Max0(1000 - (posRatio + negRatio))]>>]

analyzeKeywordSentiment(text) ==
  IF Trim(text) = <<>> THEN NeutralKeywordVerdict
  ELSE LET positiveScore == CountIn(text, POSITIVE_KEYWORDS)
           negativeScore == CountIn(text, NEGATIVE_KEYWORDS)
       IN IF positiveScore + negativeScore = 0
          THEN IF CountIn(text, PriceUpTokens) > 0
                 THEN PriceVerdict("positive")
               ELSE IF CountIn(text, PriceDownTokens) > 0
                 THEN PriceVerdict("negative")
               ELSE NeutralKeywordVerdict
          ELSE KeywordRatioVerdict(positiveScore, negativeScore)

\* SentimentAnalyzer: the models tried in order by tryLoadModel.
ModelsToTry == <<"twitter-roberta", "distilbert", "nlptown-bert">>

\* 0 when every model fails to load, else the index of the first that loads.
LoadOutcomes == 0 .. 2

RawLabels == {"positive", "NEGATIVE", "LABEL_1"}

RawScores == {250, 980}

Predictions == [label : RawLabels, score : RawScores]

\* Math.random() * 0.3, in thousandths.
RandomDraws == {0, 299}

\* Label mapping of the local path (lines 189-198), after toLowerCase().
LocalLabel(rawLabel) ==
  CASE rawLabel = "positive" -> "positive"
    [] rawLabel = "NEGATIVE" -> "negative"
    [] OTHER -> "neutral"

\* Label mapping of the remote path (lines 296-305).
ApiLabel(rawLabel) ==
  CASE rawLabel = "positive" -> "positive"
    [] rawLabel = "NEGATIVE" -> "negative"
    [] OTHER -> "neutral"

AdjustedConfidence(modelName, score) ==
  IF modelName = "distilbert" THEN Min((score * 9) \div 10, 950) ELSE score

OtherLabels(sentiment) ==
  SelectSeq(<<"positive", "negative", "neutral">>,
            LAMBDA l : l # sentiment)

\* scores of a local verdict: the predicted label first, then the other two;
\* r1, r2 are the Math.random() draws taken for the non-neutral ones.
LocalScores(sentiment, conf, r1, r2) ==
  LET others == OtherLabels(sentiment)
      draws == <<r1, r2>>
  IN <<[label |-> sentiment, score |-> conf]>> \o
     [k \in 1 .. 2 |->
        [label |-> others[k],
         score |-> IF others[k] = "neutral" THEN Max0(1000 - conf)
                   ELSE draws[k]]]

RECURSIVE BestScore(_, _, _)
BestScore(ps, best, k) ==
  IF k > Len(ps) THEN best
  ELSE BestScore(ps, IF ps[k].score > ps[best].score THEN k ELSE best, k + 1)

\* The verdict of SentimentAnalyzer.analyzeSentiment on a prediction.
LocalVerdict_Mutant(prediction, modelName, r1, r2) ==
  LET conf == AdjustedConfidence(modelName, prediction.score)
      scores == LocalScores(LocalLabel(prediction.label), conf, r1, r2)
  IN [sentiment |-> scores[BestScore(scores, 1, 2)].label,
      confidence |-> conf, scores |-> scores]

LocalVerdict(prediction, modelName, r1, r2) ==
  LET conf == AdjustedConfidence(modelName, prediction.score)
      sentiment == LocalLabel(prediction.label)
  IN [sentiment |-> sentiment, confidence |-> conf,
      scores |-> LocalScores(sentiment, conf, r1, r2)]

\* What the hosted model answers: an HTTP failure, a body that is not a
\* prediction list, or a list of predictions (possibly empty).
ApiFailures ==
  { [status |-> st, body |-> <<>>] : st \in {"http503", "invalid"} }

ApiResponses ==
  { [status |-> "ok", body |-> b] :
      b \in { <<[label |-> "positive", score |-> 900],
                [label |-> "NEGATIVE", score |-> 60]>>,
              <<[label |-> "LABEL_1", score |-> 700],
                [label |-> "NEGATIVE", score |-> 200]>>,
              <<>> } }

ApiUnused == [status |-> "unused", body |-> <<>>]

\* SentimentAnalyzer.analyzeWithAPI on a response that arrived: the verdict,
\* or the thrown SentimentAnalysisError.
ApiError == [sentiment |-> "none", error |-> "API sentiment analysis failed"]

analyzeWithAPI(response) ==
  IF response.status # "ok" \/ response.body = <<>> THEN ApiError
  ELSE LET predictionArray == response.body
           best == predictionArray[BestScore(predictionArray, 1, 2)]
       IN [sentiment |-> ApiLabel(best.label), confidence |-> best.score,
           scores |-> [k \in 1 .. Len(predictionArray) |->
                         [label |-> ApiLabel(predictionArray[k].label),
                          score |-> predictionArray[k].score]]]

(***************************************************************************)
(* One caller of the exported analyzeSentiment(text) (lines 456-491), run  *)
(* twice on the same text in the same environment.  The environment of a   *)
(* call says which model loads, what the loaded model answers, whether an  *)
(* API key is configured and what the hosted model answers.  qTried lists   *)
(* the classifiers called, qLocal and qApi what each of them produced.     *)
(***************************************************************************)
InferError == [label |-> "error", score |-> 0]

InferOutcomes == {InferError} \cup Predictions

ApiOutcomes == ApiFailures \cup ApiResponses

AnalyzeEnvs ==
  { e \in [load : LoadOutcomes, infer : InferOutcomes, apiKey : BOOLEAN,
           api : {ApiUnused} \cup ApiOutcomes] :
      /\ e.apiKey <=> e.api # ApiUnused
      /\ e.load = 0 => e.infer = InferError }

NoVerdict == [sentiment |-> "none"]

NoEnv == [load |-> 0, infer |-> InferError, apiKey |-> FALSE, api |-> ApiUnused]

\* if ("method" in result && config.HUGGINGFACE_API_KEY)
UseApi_Mutant(result, apiKey) == apiKey

UseApi(result, apiKey) == "method" \in DOMAIN result /\ apiKey

AnalyzeInit ==
  /\ model = "null"
  /\ isInitializing = FALSE
  /\ qPc = "idle"
  /\ qText = <<>>
  /\ qEnv = NoEnv
  /\ qLocal = NoVerdict
  /\ qApi = NoVerdict
  /\ qTried = <<>>
  /\ qResult = NoVerdict
  /\ qPrev = NoVerdict
  /\ qCalls = 0

\* analyzeSentiment(text) is entered: an empty text is answered at once.
AnalyzeEnter(text, env) ==
  /\ qText' = text
  /\ qEnv' = env
  /\ qLocal' = NoVerdict
  /\ qApi' = NoVerdict
  /\ qCalls' = qCalls + 1
  /\ IF Trim(text) = <<>>
       THEN /\ qPc' = "done"
            /\ qTried' = <<>>
            /\ qResult' = analyzeKeywordSentiment(<<>>)
       ELSE /\ qPc' = "initialize"
            /\ qTried' = <<"local">>
            /\ qResult' = NoVerdict
  /\ UNCHANGED <<model, isInitializing>>

AnalyzeCall ==
  /\ qPc = "idle"
  /\ \E text \in SampleTexts, env \in AnalyzeEnvs : AnalyzeEnter(text, env)
  /\ qPrev' = NoVerdict
  /\ UNCHANGED notSent

\* The same caller analyses the same text again, nothing outside having
\* changed; the analyzer singleton keeps its state.
AnalyzeAgain ==
  /\ qPc = "done"
  /\ qCalls = 1
  /\ AnalyzeEnter(qText, qEnv)
  /\ qPrev' = qResult
  /\ UNCHANGED notSent

\* SentimentAnalyzer.initialize(): nothing to do with a model in place,
\* else tryLoadModel() is started.
AnalyzerInitialize ==
  /\ qPc = "initialize"
  /\ IF model # "null"
       THEN qPc' = "infer" /\ UNCHANGED isInitializing
       ELSE qPc' = "loading" /\ isInitializing' = TRUE
  /\ UNCHANGED <<model, qText, qEnv, qLocal, qApi, qTried, qResult, qPrev,
                 qCalls>>
  /\ UNCHANGED notSent

\* tryLoadModel() settles; without a model the analyzer answers by keywords.
TryLoadModelSettles ==
  /\ qPc = "loading"
  /\ IF qEnv.load = 0
       THEN /\ model' = "null"
            /\ isInitializing' = FALSE
            /\ qResult' = analyzeKeywordSentiment(qText)
            /\ qPc' = "route"
       ELSE /\ model' = ModelsToTry[qEnv.load]
            /\ UNCHANGED <<isInitializing, qResult>>
            /\ qPc' = "infer"
  /\ UNCHANGED <<qText, qEnv, qLocal, qApi, qTried, qPrev, qCalls>>
  /\ UNCHANGED notSent

\* await this.model(cleanText) settles: a verdict from the prediction, or the
\* keyword verdict when the inference threw.
InferenceSettles ==
  /\ qPc = "infer"
  /\ IF qEnv.infer = InferError
       THEN /\ qResult' = analyzeKeywordSentiment(qText)
            /\ UNCHANGED qLocal
       ELSE /\ \E r1 \in RandomDraws, r2 \in RandomDraws :
                 qLocal' = LocalVerdict(qEnv.infer, model, r1, r2)
            /\ qResult' = qLocal'
  /\ qPc' = "route"
  /\ UNCHANGED <<model, isInitializing, qText, qEnv, qApi, qTried, qPrev,
                 qCalls>>
  /\ UNCHANGED notSent

\* Back in the exported function: the hosted model is asked only for a
\* keyword verdict and with an API key; otherwise the verdict is returned.
AnalyzeRoutes ==
  /\ qPc = "route"
  /\ IF UseApi(qResult, qEnv.apiKey)
       THEN qPc' = "api" /\ qTried' = Append(qTried, "api")
       ELSE qPc' = "done" /\ UNCHANGED qTried
  /\ UNCHANGED <<model, isInitializing, qText, qEnv, qLocal, qApi, qResult,
                 qPrev, qCalls>>
  /\ UNCHANGED notSent

\* analyzeWithAPI settles: its verdict, or on failure the verdict in hand.
ApiSettles ==
  /\ qPc = "api"
  /\ LET apiResult == analyzeWithAPI(qEnv.api)
     IN IF apiResult = ApiError
          THEN UNCHANGED <<qApi, qResult>>
          ELSE qApi' = apiResult /\ qResult' = apiResult
  /\ qPc' = "done"
  /\ UNCHANGED <<model, isInitializing, qText, qEnv, qLocal, qTried, qPrev,
                 qCalls>>
  /\ UNCHANGED notSent

AnalyzeNext ==
  \/ AnalyzeCall
  \/ AnalyzeAgain
  \/ AnalyzerInitialize
  \/ TryLoadModelSettles
  \/ InferenceSettles
  \/ AnalyzeRoutes
  \/ ApiSettles

AnalyzeDone == qPc = "done"

SentimentLabelSet == {"positive", "negative", "neutral"}

\* C12: analyzeSentiment(text) always resolves with a verdict, whatever the
\* text; the local classifier is asked first and its verdict is returned
\* without asking the hosted one; the hosted classifier's verdict is returned
\* when the local one produced none; the keyword verdict of the text is
\* returned only when neither classifier produced a verdict.
C12_FirstSuccessWins ==
  AnalyzeDone =>
    /\ qResult.sentiment \in SentimentLabelSet
    /\ qLocal # NoVerdict => qResult = qLocal /\ qTried = <<"local">>
    /\ qLocal = NoVerdict /\ qApi # NoVerdict =>
         qResult = qApi /\ qTried = <<"local", "api">>
    /\ "method" \in DOMAIN qResult =>
         /\ qLocal = NoVerdict
         /\ qApi = NoVerdict
         /\ qResult = analyzeKeywordSentiment(qText)
         /\ qEnv.apiKey /\ Trim(qText) # <<>> => qTried = <<"local", "api">>

\* The local classifier failed and the hosted one supplied the verdict.
C12_Witness ==
  /\ AnalyzeDone
  /\ qTried = <<"local", "api">>
  /\ qLocal = NoVerdict
  /\ qResult = qApi
  /\ qApi # NoVerdict

\* C19: a second analyzeSentiment(text) on the same text, nothing outside
\* having changed, returns the same label as the first; when the verdict is
\* the keyword one the two verdicts are equal in every field.
C19_SameLabelTwice ==
  AnalyzeDone /\ qCalls = 2 =>
    /\ qResult.sentiment = qPrev.sentiment
    /\ "method" \in DOMAIN qResult => qResult = qPrev

\* Two local verdicts on the same text whose random scores differ.
C19_Witness ==
  /\ AnalyzeDone
  /\ qCalls = 2
  /\ qLocal # NoVerdict
  /\ qResult # qPrev
  /\ qResult.sentiment = qPrev.sentiment

(***************************************************************************)
(* Batch analysis.  Three functions analyse a list of texts:               *)
(*   "analyzeMultipleTexts"  src/unnamed/part_000, lines 493-555           *)
(*   "sharedMultipleTexts"   src/shared/utils/sentiment.ts, lines 158-162  *)
(*   "analyzeBatchTexts"     src/server/api-clients.ts, lines 937-998      *)
(* bItems holds the promises of the group being awaited; bStarted logs,    *)
(* for every analysis started, what had settled and how many inter-batch   *)
(* delays had elapsed at that moment; bLog says, for every verdict pushed, *)
(* which text it was computed from and whether a classifier produced it.   *)
(***************************************************************************)
MaxTexts == 3

BatchTexts ==
  { <<"btc", "rally", "surge">>, <<"crash", "fear", "rally">>, <<" ">> }

RECURSIVE SeqsUpTo(_, _)
SeqsUpTo(S, n) ==
  IF n = 0 THEN {<<>>}
  ELSE LET shorter == SeqsUpTo(S, n - 1)
       IN shorter \cup { Append(s, x) : s \in { t \in shorter : Len(t) = n - 1 },
                                        x \in S }

BatchInputs == SeqsUpTo(BatchTexts, MaxTexts)

Concurrencies == {1, 2}

\* maxConcurrency: number = 2
DefaultMaxConcurrency == 2

\* shared/utils/sentiment.ts analyzeKeywordSentiment, which the API client
\* imports: no price patterns, thresholds at 0.6.
sharedKeywordSentiment(text) ==
  IF Trim(text) = <<>> THEN NeutralKeywordVerdict
  ELSE LET p == CountIn(text, POSITIVE_KEYWORDS)
           n == CountIn(text, NEGATIVE_KEYWORDS)
           t == p + n
       IN IF t = 0 THEN NeutralKeywordVerdict
          ELSE LET posRatio == (1000 * p) \div t
                   negRatio == (1000 * n) \div t
               IN [sentiment |-> IF 10 * p > 6 * t THEN "positive"
                                 ELSE IF 10 * n > 6 * t THEN "negative"
                                 ELSE "neutral",
                   confidence |-> IF 10 * p > 6 * t THEN Min(800, posRatio + 200)
                                  ELSE IF 10 * n > 6 * t
                                    THEN Min(800, negRatio + 200)
                                  ELSE 500,
                   method |-> "keyword",
                   scores |-> <<[label |-> "positive", score |-> posRatio],
                                [label |-> "negative", score |-> negRatio],
                                [label |-> "neutral",
                                 score |-> Max0(1000 - (posRatio + negRatio))]>>]

\* What one analyzeSentiment(text) of part_000 resolves with in environment
\* env: the outcome of the cascade that AnalyzeNext runs step by step.
AnalyzeOutcome(text, env, r1, r2) ==
  IF Trim(text) = <<>> THEN analyzeKeywordSentiment(<<>>)
  ELSE LET local == IF env.load = 0 \/ env.infer = InferError
                      THEN analyzeKeywordSentiment(text)
                      ELSE LocalVerdict(env.infer, ModelsToTry[env.load], r1, r2)
           apiResult == analyzeWithAPI(env.api)
       IN IF UseApi(local, env.apiKey) /\ apiResult # ApiError
            THEN apiResult
            ELSE local

\* The environments the items of a batch meet.
ItemEnvs ==
  { e \in AnalyzeEnvs :
      /\ e.load \in {0, 1}
      /\ e.infer \in {InferError, [label |-> "positive", score |-> 980]}
      /\ e.api \in {ApiUnused, [status |-> "http503", body |-> <<>>],
                    [status |-> "ok",
                     body |-> <<[label |-> "LABEL_1", score |-> 700],
                                [label |-> "NEGATIVE", score |-> 200]>>]} }

\* texts.slice(i, i + maxConcurrency)
BatchSlice_Mutant(texts, i, maxConc) == SubSeq(texts, 1, Min(maxConc, Len(texts)))

BatchSlice(texts, i, maxConc) == SubSeq(texts, i + 1, Min(i + maxConc, Len(texts)))

PendingItem(text) ==
  [text |-> text, status |-> "inflight", verdict |-> NoVerdict, how |-> "none"]

\* The analyses started so far that have settled: those of earlier groups
\* and the settled ones of the group in hand.
SettledIndices(started, items) ==
  { k \in 1 .. Len(started) :
      k <= Len(started) - Len(items)
        \/ items[k - (Len(started) - Len(items))].status = "settled" }

\* The promises of one group are created: each analysis is started.
StartGroup(texts, started, delays) ==
  /\ bItems' = [k \in 1 .. Len(texts) |-> PendingItem(texts[k])]
  /\ bStarted' = started \o
       [k \in 1 .. Len(texts) |->
          [settled |-> SettledIndices(started, bItems), delays |-> delays]]

SentimentCounts(results, label) ==
  Len(SelectSeq(results, LAMBDA v : v.sentiment = label))

\* Math.round((count / total) * 100), for total > 0.
RoundPercent(count, total) == (200 * count + total) \div (2 * total)

NoData == [positive |-> 0, negative |-> 0, neutral |-> 0, mood |-> "none",
           nan |-> FALSE]

\* The statistics of SentimentClient.analyzeBatchTexts.  The elements of
\* result.scores are objects, not numbers, so every score counts as 0 and
\* averageScore is 0 (NaN for an empty list, for which every comparison is
\* false and every percentage is NaN).
BatchStatistics(results) ==
  LET total == Len(results)
      positive == SentimentCounts(results, "positive")
      negative == SentimentCounts(results, "negative")
      neutral == SentimentCounts(results, "neutral")
      averageScore == 0
  IN IF total = 0
       THEN [positive |-> 0, negative |-> 0, neutral |-> 0,
             mood |-> "neutral", nan |-> TRUE]
       ELSE [positive |-> RoundPercent(positive, total),
             negative |-> RoundPercent(negative, total),
             neutral |-> RoundPercent(neutral, total),
             mood |-> IF 2 * positive > total /\ averageScore > 600
                        THEN "bullish"
                      ELSE IF 2 * negative > total /\ averageScore < 400
                        THEN "bearish"
                      ELSE "neutral",
             nan |-> FALSE]

BatchInit ==
  /\ bPc = "idle"
  /\ bImpl = "analyzeMultipleTexts"
  /\ bTexts = <<>>
  /\ maxConcurrency = DefaultMaxConcurrency
  /\ bI = 0
  /\ bItems = <<>>
  /\ bStarted = <<>>
  /\ bDelays = 0
  /\ bLog = <<>>
  /\ bResults = <<>>
  /\ bData = NoData

\* analyzeMultipleTexts(texts, maxConcurrency) of part_000: an empty list is
\* answered at once, else the first group is started.
AnalyzeMultipleTextsCall ==
  /\ bPc = "idle"
  /\ \E texts \in BatchInputs, mc \in Concurrencies :
       /\ bImpl' = "analyzeMultipleTexts"
       /\ bTexts' = texts
       /\ maxConcurrency' = mc
       /\ IF texts = <<>>
            THEN bPc' = "done" /\ UNCHANGED <<bItems, bStarted>>
            ELSE bPc' = "group" /\ StartGroup(BatchSlice(texts, 0, mc), <<>>, 0)
  /\ UNCHANGED <<bI, bDelays, bLog, bResults, bData>>
  /\ UNCHANGED notBatch

\* The shared analyzeMultipleTexts: texts.map calls analyzeSentiment on each
\* text in turn; each call runs the keyword analysis to its end and returns
\* a resolved promise before the next is made.
SharedMultipleTextsCall ==
  /\ bPc = "idle"
  /\ \E texts \in BatchInputs :
       /\ bImpl' = "sharedMultipleTexts"
       /\ bTexts' = texts
       /\ bItems' = [k \in 1 .. Len(texts) |->
                       [text |-> texts[k], status |-> "settled",
                        verdict |-> sharedKeywordSentiment(texts[k]),
                        how |-> "keyword"]]
       /\ bStarted' = [k \in 1 .. Len(texts) |->
                         [settled |-> 1 .. (k - 1), delays |-> 0]]
  /\ bPc' = "all"
  /\ UNCHANGED <<maxConcurrency, bI, bDelays, bLog, bResults, bData>>
  /\ UNCHANGED notBatch

\* SentimentClient.analyzeBatchTexts: texts.map calls this.analyzeSentiment
\* on every text; each of these awaits, so all of them are pending when
\* Promise.all is awaited.
AnalyzeBatchTextsCall ==
  /\ bPc = "idle"
  /\ \E texts \in BatchInputs :
       /\ bImpl' = "analyzeBatchTexts"
       /\ bTexts' = texts
       /\ StartGroup(texts, <<>>, 0)
  /\ bPc' = "all"
  /\ UNCHANGED <<maxConcurrency, bI, bDelays, bLog, bResults, bData>>
  /\ UNCHANGED notBatch

\* One analysis of the group awaited by part_000 settles, in any order.
ItemSettles ==
  /\ bPc = "group"
  /\ \E k \in 1 .. Len(bItems), env \in ItemEnvs,
        r1 \in RandomDraws, r2 \in RandomDraws :
       /\ bItems[k].status = "inflight"
       /\ LET v == AnalyzeOutcome(bItems[k].text, env, r1, r2)
          IN bItems' = [bItems EXCEPT ![k] =
               [text |-> bItems[k].text, status |-> "settled", verdict |-> v,
                how |-> IF "method" \in DOMAIN v THEN "keyword" ELSE "ml"]]
  /\ UNCHANGED <<bPc, bImpl, bTexts, maxConcurrency, bI, bStarted, bDelays,
                 bLog, bResults, bData>>
  /\ UNCHANGED notBatch

\* One pending this.analyzeSentiment(text) of the API client settles; the
\* continuations run in the order in which the calls were made.
ClientItemSettles ==
  /\ bPc = "all"
  /\ \E k \in 1 .. Len(bItems) :
       /\ bItems[k].status = "inflight"
       /\ \A j \in 1 .. (k - 1) : bItems[j].status = "settled"
       /\ bItems' = [bItems EXCEPT ![k] =
            [text |-> bItems[k].text, status |-> "settled",
             verdict |-> sharedKeywordSentiment(bItems[k].text),
             how |-> "keyword"]]
  /\ UNCHANGED <<bPc, bImpl, bTexts, maxConcurrency, bI, bStarted, bDelays,
                 bLog, bResults, bData>>
  /\ UNCHANGED notBatch

AllSettled(items) == \A k \in 1 .. Len(items) : items[k].status = "settled"

\* Promise.allSettled(batchPromises) resolves: the verdicts are pushed in the
\* order of the group; then the inter-batch delay is started, or the loop
\* ends and the results are returned.
GroupSettled ==
  /\ bPc = "group"
  /\ AllSettled(bItems)
  /\ bResults' = bResults \o [k \in 1 .. Len(bItems) |-> bItems[k].verdict]
  /\ bLog' = bLog \o [k \in 1 .. Len(bItems) |->
                        [text |-> bItems[k].text, how |-> bItems[k].how]]
  /\ bItems' = <<>>
  /\ IF bI + maxConcurrency < Len(bTexts)
       THEN bPc' = "delay" /\ UNCHANGED bI
       ELSE bPc' = "done" /\ bI' = bI + maxConcurrency
  /\ UNCHANGED <<bImpl, bTexts, maxConcurrency, bStarted, bDelays, bData>>
  /\ UNCHANGED notBatch

\* The 1000 ms delay elapses; i += maxConcurrency and the next group starts.
DelayElapses ==
  /\ bPc = "delay"
  /\ bDelays' = bDelays + 1
  /\ bI' = bI + maxConcurrency
  /\ StartGroup(BatchSlice(bTexts, bI', maxConcurrency), bStarted, bDelays')
  /\ bPc' = "group"
  /\ UNCHANGED <<bImpl, bTexts, maxConcurrency, bLog, bResults, bData>>
  /\ UNCHANGED notBatch

\* Promise.all resolves: the shared function returns the verdicts, the API
\* client its statistics.
AllResolved ==
  /\ bPc = "all"
  /\ AllSettled(bItems)
  /\ bResults' = [k \in 1 .. Len(bItems) |-> bItems[k].verdict]
  /\ bLog' = [k \in 1 .. Len(bItems) |->
                [text |-> bItems[k].text, how |-> bItems[k].how]]
  /\ bData' = IF bImpl = "analyzeBatchTexts" THEN BatchStatistics(bResults')
              ELSE bData
  /\ bItems' = <<>>
  /\ bPc' = "done"
  /\ UNCHANGED <<bImpl, bTexts, maxConcurrency, bI, bStarted, bDelays>>
  /\ UNCHANGED notBatch

BatchNext ==
  \/ AnalyzeMultipleTextsCall
  \/ SharedMultipleTextsCall
  \/ AnalyzeBatchTextsCall
  \/ ItemSettles
  \/ ClientItemSettles
  \/ GroupSettled
  \/ DelayElapses
  \/ AllResolved

BatchDone == bPc = "done"

InFlight == { k \in 1 .. Len(bItems) : bItems[k].status = "inflight" }

\* C11: analyzeMultipleTexts(texts) of part_000 always resolves with one
\* verdict per text, the k-th verdict being the one computed from the k-th
\* text, whatever analyses failed; an item whose classifiers failed has the
\* keyword verdict of its own text.
C11_OneVerdictPerText ==
  BatchDone /\ bImpl = "analyzeMultipleTexts" =>
    /\ Len(bResults) = Len(bTexts)
    /\ \A k \in 1 .. Len(bResults) :
         /\ bResults[k].sentiment \in SentimentLabelSet
         /\ k <= Len(bTexts) => bLog[k].text = bTexts[k]
         /\ k <= Len(bTexts) /\ bLog[k].how = "keyword" =>
              bResults[k] = analyzeKeywordSentiment(bTexts[k])

\* Three texts in groups of two: the second item fell back to keywords, the
\* first and the third were classified.
C11_Witness ==
  /\ BatchDone
  /\ bImpl = "analyzeMultipleTexts"
  /\ Len(bTexts) = 3
  /\ maxConcurrency = 2
  /\ Len(bResults) = 3
  /\ bLog[1].how = "ml"
  /\ bLog[2].how = "keyword"
  /\ bLog[3].how = "ml"
  /\ bTexts[2] # bTexts[1]

ConcurrencyLimit ==
  IF bImpl = "analyzeMultipleTexts" THEN maxConcurrency
  ELSE DefaultMaxConcurrency

\* C13: in every batch function at most concurrencyLimit analyses are in
\* flight at any time, and an analysis of a later group is started only
\* after every analysis of the earlier groups has settled and one
\* inter-batch delay per earlier group has elapsed.
C13_BoundedConcurrency ==
  /\ Cardinality(InFlight) <= ConcurrencyLimit
  /\ \A k \in 1 .. Len(bStarted) :
       LET earlier == ((k - 1) \div ConcurrencyLimit) * ConcurrencyLimit
       IN /\ 1 .. earlier \subseteq bStarted[k].settled
          /\ bStarted[k].delays >= (k - 1) \div ConcurrencyLimit

(***************************************************************************)
(* Aggregate scoring.  SentimentClient.calculateOverallSentiment           *)
(* (src/server/api-clients.ts, lines 1000-1060) scores the first ten       *)
(* articles through the shared keyword analysis; calculateOverallSentiment *)
(* of src/unnamed/part_000 (lines 557-657) scores a list of verdicts.      *)
(* Both only count the verdicts and sum their confidences, so a list is    *)
(* given by its counts: positives first, then negatives, then neutrals.    *)
(* Percentages of part_000 are in hundredths of a percent.                 *)
(***************************************************************************)
MaxVerdicts == 10

\* articles.slice(0, 10)
ArticleLimit == 10

\* avgConfidence > 0.6
ConfidenceGate == 600

ConfidenceLevels == {300, 800}

Repeat(x, k) == [i \in 1 .. k |-> x]

PositiveArticle == <<"btc", "rally", "surge">>

NegativeArticle == <<"crash", "fear", "dump">>

NeutralArticle == <<"btc", "price">>

Articles(p, n, u) ==
  Repeat(PositiveArticle, p) \o Repeat(NegativeArticle, n)
    \o Repeat(NeutralArticle, u)

Verdict(label, conf) == [sentiment |-> label, confidence |-> conf]

Verdicts(p, n, u, cp, cn, cu) ==
  Repeat(Verdict("positive", cp), p) \o Repeat(Verdict("negative", cn), n)
    \o Repeat(Verdict("neutral", cu), u)

\* shared/utils/sentiment.ts analyzeMultipleTexts
sharedAnalyzeMultipleTexts(texts) ==
  [k \in 1 .. Len(texts) |-> sharedKeywordSentiment(texts[k])]

SumConfidence(results) ==
  SumSeq([k \in 1 .. Len(results) |-> results[k].confidence])

\* Rounding of a / b to the nearest integer, for a >= 0 and b > 0.
RoundDiv(a, b) == (2 * a + b) \div (2 * b)

\* SentimentClient.calculateOverallSentiment.  avgConfidence > 0.6 is
\* sum > 0.6 * total; with no article every ratio is NaN.
ClientOverallSentiment(articles) ==
  LET texts == SubSeq(articles, 1, Min(Len(articles), ArticleLimit))
      results == sharedAnalyzeMultipleTexts(texts)
      total == Len(results)
      positive == SentimentCounts(results, "positive")
      neutral == SentimentCounts(results, "neutral")
      negative == SentimentCounts(results, "negative")
      sum == SumConfidence(results)
      confident == sum > ConfidenceGate * total
  IN IF total = 0
       THEN [positive |-> 0, negative |-> 0, neutral |-> 0,
             mood |-> "neutral", nan |-> TRUE]
       ELSE [positive |-> RoundPercent(positive, total),
             negative |-> RoundPercent(negative, total),
             neutral |-> RoundPercent(neutral, total),
             mood |-> IF 100 * positive > 45 * total /\ confident
                        THEN "bullish"
                      ELSE IF 100 * negative > 45 * total /\ confident
                        THEN "bearish"
                      ELSE "neutral",
             nan |-> FALSE]

NoOverall ==
  [sentiment |-> "none", confidence |-> 0,
   breakdown |-> [positive |-> 0, negative |-> 0, neutral |-> 0, total |-> 0,
                  percentages |-> [positive |-> 0, negative |-> 0,
                                   neutral |-> 0],
                  averageConfidence |-> 0]]

\* calculateOverallSentiment of part_000, confidences in thousandths.
calculateOverallSentiment(results) ==
  IF results = <<>>
    THEN [NoOverall EXCEPT !.sentiment = "neutral", !.confidence = 500]
  ELSE
    LET total == Len(results)
        positive == SentimentCounts(results, "positive")
        negative == SentimentCounts(results, "negative")
        neutral == SentimentCounts(results, "neutral")
        posPercent == RoundDiv(10000 * positive, total)
        negPercent == RoundDiv(10000 * negative, total)
        neutPercent == RoundDiv(10000 * neutral, total)
        averageConfidence == RoundDiv(SumConfidence(results), total)
        branch ==
          IF posPercent > 5000 /\ posPercent > negPercent + 1500 THEN "positive"
          ELSE IF negPercent > 5000 /\ negPercent > posPercent + 1500
            THEN "negative"
          ELSE IF neutPercent > 6000 \/ Abs(posPercent - negPercent) < 1000
            THEN "neutral"
          ELSE "lean"
        overallSentiment ==
          IF branch = "lean"
            THEN IF posPercent > negPercent THEN "positive" ELSE "negative"
            ELSE branch
        \* in millionths
        confidence ==
          CASE branch = "positive" ->
                 Min(950000, 600000 + 30 * posPercent + 100 * averageConfidence)
            [] branch = "negative" ->
                 Min(950000, 600000 + 30 * negPercent + 100 * averageConfidence)
            [] branch = "neutral" ->
                 Min(850000, 500000 + 300 * averageConfidence)
            [] OTHER ->
                 Min(800000, 500000 + 30 * Abs(posPercent - negPercent))
    IN [sentiment |-> overallSentiment,
        confidence |-> RoundDiv(confidence, 1000),
        breakdown |-> [positive |-> positive, negative |-> negative,
                       neutral |-> neutral, total |-> total,
                       percentages |-> [positive |-> posPercent,
                                        negative |-> negPercent,
                                        neutral |-> neutPercent],
                       averageConfidence |-> averageConfidence]]

AggregateInit ==
  /\ gPc = "idle"
  /\ gImpl = "none"
  /\ gInput = <<>>
  /\ gData = NoData
  /\ gOverall = NoOverall

\* sentimentClient.calculateOverallSentiment(articles); gInput keeps the
\* verdicts the statistics were computed from.
ClientOverallCall ==
  /\ gPc = "idle"
  /\ \E p \in 0 .. MaxVerdicts, n \in 0 .. MaxVerdicts, u \in 0 .. MaxVerdicts :
       /\ p + n + u <= MaxVerdicts
       /\ gInput' = sharedAnalyzeMultipleTexts(
                      SubSeq(Articles(p, n, u), 1,
                             Min(p + n + u, ArticleLimit)))
       /\ gData' = ClientOverallSentiment(Articles(p, n, u))
  /\ gImpl' = "SentimentClient"
  /\ gPc' = "done"
  /\ UNCHANGED gOverall
  /\ UNCHANGED notAgg

\* calculateOverallSentiment(results) of part_000.
OverallSentimentCall ==
  /\ gPc = "idle"
  /\ \E p \in 0 .. MaxVerdicts, n \in 0 .. MaxVerdicts, u \in 0 .. MaxVerdicts,
        cp \in ConfidenceLevels, cn \in ConfidenceLevels,
        cu \in ConfidenceLevels :
       /\ p + n + u <= MaxVerdicts
       /\ gInput' = [k \in 1 .. (p + n + u) |->
                       Verdicts(p, n, u, cp, cn, cu)[k]]
       /\ gOverall' = calculateOverallSentiment(Verdicts(p, n, u, cp, cn, cu))
  /\ gImpl' = "calculateOverallSentiment"
  /\ gPc' = "done"
  /\ UNCHANGED gData
  /\ UNCHANGED notAgg

AggregateNext ==
  \/ ClientOverallCall
  \/ OverallSentimentCall

AggregateDone == gPc = "done"

MoodOf(sentiment) ==
  CASE sentiment = "positive" -> "bullish"
    [] sentiment = "negative" -> "bearish"
    [] OTHER -> "neutral"

Mood ==
  IF gImpl = "SentimentClient" THEN gData.mood ELSE MoodOf(gOverall.sentiment)

InputCount(label) == SentimentCounts(gInput, label)

\* C14: ten verdicts, seven positive and three negative, of average
\* confidence 0.8 give mood bullish; whenever the positive and the negative
\* shares are equal (5/5 included) the mood is neutral; whenever the average
\* confidence is not above the confidence gate the mood is neutral.
C14_TieOrLowConfidenceIsNeutral ==
  AggregateDone /\ gInput # <<>> =>
    /\ ( /\ InputCount("positive") = 7
         /\ InputCount("negative") = 3
         /\ Len(gInput) = 10
         /\ SumConfidence(gInput) = 8000 ) => Mood = "bullish"
    /\ InputCount("positive") = InputCount("negative") => Mood = "neutral"
    /\ SumConfidence(gInput) <= ConfidenceGate * Len(gInput) => Mood = "neutral"

\* The three percentages of the result, and the top of their scale (the
\* client gives whole percents, part_000 hundredths of a percent).
Percentages ==
  IF gImpl = "SentimentClient"
    THEN <<gData.positive, gData.negative, gData.neutral>>
    ELSE <<gOverall.breakdown.percentages.positive,
           gOverall.breakdown.percentages.negative,
           gOverall.breakdown.percentages.neutral>>

FullShare == IF gImpl = "SentimentClient" THEN 100 ELSE 10000

\* Whether a percentage of the result is NaN.
PercentagesUndefined == gImpl = "SentimentClient" /\ gData.nan

\* C30: both aggregate functions are total: for an empty list the result is
\* neutral and its percentages are the number 0, none of them the outcome
\* of a division by zero; for a non-empty list every percentage is a number
\* between 0 and 100.
C30_AggregateIsTotal ==
  AggregateDone =>
    /\ ~PercentagesUndefined
    /\ gInput = <<>> =>
         /\ Mood = "neutral"
         /\ \A k \in 1 .. 3 : Percentages[k] = 0
    /\ gInput # <<>> =>
         \A k \in 1 .. 3 : Percentages[k] \in 0 .. FullShare

(***************************************************************************)
(* The sentiment tags of a refresh (server/api-clients.ts 2902-2909 and    *)
(* 2942-2955) as a function of the 24h percentages of the ticker list:     *)
(* updateMarketData tags every coin and calculateGlobalSentiment tags the  *)
(* list.  Percentages are the strings the ticker gives.                    *)
(***************************************************************************)
MaxCoins == 3

PercentStrings == {"-5.00", "-3.00", "0.50", "3.00", "4.17", "5.00"}

TickerLists == SeqsUpTo(PercentStrings, MaxCoins)

TickerCoins(percents) ==
  [i \in 1..Len(percents) |-> [priceChangePercent24h |-> percents[i]]]

TagInit ==
  /\ tPc = "idle"
  /\ tPercents = <<>>
  /\ tTags = <<>>
  /\ tGlobal = "none"

\* The ticker list of a refresh arrives.
TagTickerArrives ==
  /\ UNCHANGED notTag
  /\ tPc \in {"idle", "done"}
  /\ \E percents \in TickerLists : tPercents' = percents
  /\ tTags' = <<>>
  /\ tGlobal' = "none"
  /\ tPc' = "tagging"

\* updateMarketData tags each coin and, for its result, the whole list.
TagRefreshReturns ==
  /\ UNCHANGED notTag
  /\ tPc = "tagging"
  /\ tTags' = [i \in 1..Len(tPercents) |-> CoinSentiment(ParseFloat100(tPercents[i]))]
  /\ tGlobal' = calculateGlobalSentiment(TickerCoins(tPercents))
  /\ tPc' = "done"
  /\ UNCHANGED tPercents

TagNext == TagTickerArrives \/ TagRefreshReturns

(***************************************************************************)
(* Claims about the sentiment tags.                                        *)
(***************************************************************************)
TagDone == tPc = "done"

TotalPercent == SumSeq([i \in 1..Len(tPercents) |-> ParseFloat100(tPercents[i])])

\* The tag of the mean percentage under the thresholds +limit and -limit
\* (hundredths of a percent); a list without coins has no mean and is
\* neutral.
TagOfMean(limit) ==
  IF Len(tPercents) = 0 THEN "neutral"
  ELSE IF TotalPercent >= limit * Len(tPercents) THEN "bullish"
  ELSE IF TotalPercent <= (0 - limit) * Len(tPercents) THEN "bearish"
  ELSE "neutral"

PerCoinLimit == 500

GlobalLimit == 300

\* C28: the global sentiment is the tag the per-coin thresholds give to the
\* mean of the percentages: mean >= +5 bullish, mean <= -5 bearish,
\* otherwise neutral.
C28_GlobalUsesCoinThresholds ==
  TagDone => tGlobal = TagOfMean(PerCoinLimit)

\* C28 amended: every coin is tagged at +5 and -5, and the global sentiment
\* is the tag of the mean of the percentages at +3 and -3.
C28_GlobalUsesOwnThresholds ==
  TagDone =>
    /\ Len(tTags) = Len(tPercents)
    /\ \A i \in 1..Len(tTags) :
         tTags[i] = (IF ParseFloat100(tPercents[i]) >= PerCoinLimit THEN "bullish"
                     ELSE IF ParseFloat100(tPercents[i]) <= 0 - PerCoinLimit
                     THEN "bearish" ELSE "neutral")
    /\ tGlobal = TagOfMean(GlobalLimit)

\* A list of mean 3.585 %, between the two thresholds: no coin of it is
\* bullish and the list is.
C28_Witness ==
  /\ TagDone
  /\ tPercents = <<"3.00", "4.17">>
  /\ tTags = <<"neutral", "neutral">>
  /\ tGlobal = "bullish"

(***************************************************************************)
(* The three retry loops and what each does with a failed attempt:         *)
(*   "fetchWithTimeout"       server/api-clients.ts 28-166 (revision 1),   *)
(*   "fetchWithFallback"      server/api-clients.ts 252-325,               *)
(*   "generateGeminiResponse" server/services/types.ts 98-205.             *)
(* loopI is the loop variable of the code (i from 0, attempt from 1);      *)
(* loopLog holds, for every failed attempt, its cause, the loop variable,  *)
(* what the catch block did and the wait it took before its random part.   *)
(* fetchWithFallback races one promise, the same in every iteration:       *)
(* loopSettled is "pending" until that promise settles.                    *)
(***************************************************************************)
RetryBound == 3

GeminiMaxRetries == 3

RetryLoops == {"fetchWithTimeout", "fetchWithFallback", "generateGeminiResponse"}

\* How an attempt of generateGeminiResponse can fail: an HTTP status, the
\* abort after 30 s, or a body without text.
GeminiFailureKinds ==
  {"http401", "http403", "http429", "http503", "http500", "aborted", "notext"}

LoopFailureKinds(impl) ==
  IF impl = "generateGeminiResponse" THEN GeminiFailureKinds ELSE FailureKinds

\* The catch block of generateGeminiResponse: authentication and quota
\* errors leave the loop; otherwise it waits unless this was the last
\* attempt.
GeminiCatch_Mutant(k, attempt) ==
  IF k \in {"http401", "http403"} THEN "break"
  ELSE IF attempt < GeminiMaxRetries THEN "wait"
  ELSE "next"

GeminiCatch(k, attempt) ==
  IF k \in {"http401", "http403", "http429"} THEN "break"
  ELSE IF attempt < GeminiMaxRetries THEN "wait"
  ELSE "next"

\* Math.pow(2, attempt) * 1000
GeminiWait(attempt) == Pow2(attempt) * 1000

\* The catch block of fetchWithFallback.
FallbackCatch(k, i, retries) ==
  IF IsDnsError(k) THEN "dnswait"
  ELSE IF IsRateLimited(k) THEN "backoff"
  ELSE IF i = retries - 1 THEN "fallback"
  ELSE "wait"

\* Math.min(1000 * Math.pow(2, i), 8000), before the jitter
FallbackWait(i) == Min(1000 * Pow2(i), 8000)

LoopCatch(impl, k, i, retries) ==
  IF impl = "generateGeminiResponse" THEN GeminiCatch(k, i)
  ELSE IF impl = "fetchWithFallback" THEN FallbackCatch(k, i, retries)
  ELSE CatchV1(k, i, retries, "api.binance.com")

LoopWait(impl, out, i) ==
  IF out \in {"substitute", "dnswait"} THEN 1000
  ELSE IF out = "backoff" THEN RateLimitBackoff(i)
  ELSE IF out = "wait"
  THEN IF impl = "generateGeminiResponse" THEN GeminiWait(i)
       ELSE IF impl = "fetchWithFallback" THEN FallbackWait(i)
       ELSE BaseWait(i)
  ELSE 0

\* The first value of the loop variable, and the loop condition.
LoopStart(impl) == IF impl = "generateGeminiResponse" THEN 1 ELSE 0

LoopGoesOn(impl, i, retries) ==
  IF impl = "generateGeminiResponse" THEN i <= retries ELSE LoopCondition(i, retries)

\* Whether the iteration with loop variable i is the last one.
IsLastAttempt(impl, i, retries) == ~LoopGoesOn(impl, i + 1, retries)

\* How the function ends when the loop is left without a return.
LoopExhausted(impl) ==
  IF impl = "fetchWithFallback" THEN "fallbackData"
  ELSE IF impl = "generateGeminiResponse" THEN "Gemini API failed after 3 attempts"
  ELSE "All fetch attempts failed"

LoopInit ==
  /\ loopPc = "idle"
  /\ loopImpl = "fetchWithTimeout"
  /\ loopRetries = 0
  /\ loopI = 0
  /\ loopSettled = "pending"
  /\ loopAttempts = 0
  /\ loopLog = <<>>
  /\ loopEnd = "none"

\* One of the functions is called: its first attempt is made.
LoopCall ==
  /\ UNCHANGED notLoop
  /\ loopPc \in {"idle", "done"}
  /\ \E impl \in RetryLoops :
       /\ loopImpl' = impl
       /\ loopRetries' \in (IF impl = "generateGeminiResponse" THEN {GeminiMaxRetries}
                            ELSE 1..RetryBound)
       /\ loopI' = LoopStart(impl)
  /\ loopSettled' = "pending"
  /\ loopAttempts' = 1
  /\ loopLog' = <<>>
  /\ loopEnd' = "none"
  /\ loopPc' = "attempt"

\* The attempt succeeds and the function returns its result.
LoopAttemptSucceeds ==
  /\ UNCHANGED notLoop
  /\ loopPc = "attempt"
  /\ loopSettled \in {"pending", "ok"}
  /\ loopSettled' = IF loopImpl = "fetchWithFallback" THEN "ok" ELSE loopSettled
  /\ loopEnd' = "result"
  /\ loopPc' = "done"
  /\ UNCHANGED <<loopImpl, loopRetries, loopI, loopAttempts, loopLog>>

\* The attempt fails and the catch block runs up to its wait, its throw,
\* its return or the end of the iteration.  In fetchWithFallback a promise
\* that has rejected rejects every later race with the same error, and one
\* still pending either rejects now or loses the race to the timer.
LoopAttemptFails ==
  /\ UNCHANGED notLoop
  /\ loopPc = "attempt"
  /\ loopSettled # "ok"
  /\ \E k \in LoopFailureKinds(loopImpl) :
       /\ loopSettled \in {"pending", k}
       /\ loopSettled' = IF loopImpl = "fetchWithFallback" /\ k # "timeout"
                         THEN k ELSE loopSettled
       /\ LET out == LoopCatch(loopImpl, k, loopI, loopRetries)
              entry == [cause |-> k, at |-> loopI, did |-> out,
                        wait |-> LoopWait(loopImpl, out, loopI),
                        last |-> IsLastAttempt(loopImpl, loopI, loopRetries)]
              leaves == out \in {"throw", "fallback", "break"}
              goesOn == LoopGoesOn(loopImpl, loopI + 1, loopRetries)
          IN /\ loopLog' = Append(loopLog, entry)
             /\ loopPc' = IF leaves THEN "done"
                          ELSE IF out = "next"
                          THEN (IF goesOn THEN "attempt" ELSE "done")
                          ELSE "wait"
             /\ loopEnd' = IF out = "throw" THEN "Service error"
                           ELSE IF out = "fallback" THEN "fallbackData"
                           ELSE IF out = "break" \/ (out = "next" /\ ~goesOn)
                           THEN LoopExhausted(loopImpl)
                           ELSE loopEnd
             /\ loopI' = IF out = "next" THEN loopI + 1 ELSE loopI
             /\ loopAttempts' = IF out = "next" /\ goesOn THEN loopAttempts + 1
                                ELSE loopAttempts
  /\ UNCHANGED <<loopImpl, loopRetries>>

\* The wait is over: the loop variable is advanced, and the next attempt is
\* made or the loop is left.
LoopWaitElapses ==
  /\ UNCHANGED notLoop
  /\ loopPc = "wait"
  /\ loopI' = loopI + 1
  /\ IF LoopGoesOn(loopImpl, loopI + 1, loopRetries)
     THEN loopPc' = "attempt" /\ loopAttempts' = loopAttempts + 1 /\ loopEnd' = loopEnd
     ELSE loopPc' = "done" /\ loopAttempts' = loopAttempts
          /\ loopEnd' = LoopExhausted(loopImpl)
  /\ UNCHANGED <<loopImpl, loopRetries, loopSettled, loopLog>>

LoopNext == LoopCall \/ LoopAttemptSucceeds \/ LoopAttemptFails \/ LoopWaitElapses

(***************************************************************************)
(* Claims about the retry loops.                                           *)
(***************************************************************************)
\* Failed attempt k was followed by the wait of the formula base * 2^i,
\* capped at 10 s, and then by a further attempt (or that wait is going on).
RetriedAfterBackoff(k, base) ==
  /\ loopLog[k].wait = Min(base * Pow2(loopLog[k].at), BackoffCap)
  /\ \/ loopAttempts >= k + 1
     \/ (k = Len(loopLog) /\ loopPc = "wait")

RateLimitedBeforeLast(k) ==
  /\ loopLog[k].cause \in {"http429", "http503"}
  /\ ~loopLog[k].last

RateLimitQuota == 450

TwCallers == {1, 2}

\* What the API answers: a status, a body that holds a data array or not,
\* and the header x-rate-limit-remaining ("" when absent).
TwStatuses == {200, 429, 500}

RemainingHeaders == {"", "0", "1"}

\* parseInt of the header values that occur.
ParseInt(str) == IF str = "0" THEN 0 ELSE IF str = "1" THEN 1 ELSE 0

\* if (remaining) this.rateLimit.remaining = parseInt(remaining)
RemainingAfterHeader(rem, header) == IF header # "" THEN ParseInt(header) ELSE rem

\* if (reset) this.rateLimit.reset = parseInt(reset) * 1000: with the header
\* the window may be over or not afterwards, without it nothing changes.
WindowAfterHeader(over) == {over, TRUE, FALSE}

\* TwitterClient.checkRateLimit up to its await: the window is renewed, or
\* the call has to wait for it, or nothing changes.
checkRateLimit(rem, over) ==
  IF over THEN [remaining |-> RateLimitQuota, over |-> FALSE, waits |-> FALSE]
  ELSE IF rem <= 0 THEN [remaining |-> rem, over |-> over, waits |-> TRUE]
  ELSE [remaining |-> rem, over |-> over, waits |-> FALSE]

IdleCall == [pc |-> "idle", stage |-> "none", sentLow |-> FALSE]

\* fetchWithRateLimit is entered by caller c for the request of a stage,
\* with rateLimit as the statements before have left it: after
\* checkRateLimit the request is sent, unless the call has to wait.
TwEnter(c, stage, rem, over) ==
  LET chk == checkRateLimit(rem, over) IN
  /\ remaining' = chk.remaining
  /\ twWindowOver' = chk.over
  /\ twCalls' = [twCalls EXCEPT ![c] =
       [pc |-> IF chk.waits THEN "limitWait" ELSE "inflight",
        stage |-> stage,
        sentLow |-> ~chk.waits /\ chk.remaining <= 0]]

TwitterInit ==
  /\ remaining = RateLimitQuota
  /\ twWindowOver = FALSE
  /\ twCalls = [c \in TwCallers |-> IdleCall]

\* A caller invokes getTrendingCryptoTopics.
TwCall ==
  /\ UNCHANGED notTwitter
  /\ \E c \in TwCallers :
       /\ twCalls[c].pc \in {"idle", "returned", "thrown"}
       /\ TwEnter(c, "search", remaining, twWindowOver)

\* Date.now() reaches rateLimit.reset.
TwWindowExpires ==
  /\ UNCHANGED notTwitter
  /\ ~twWindowOver
  /\ twWindowOver' = TRUE
  /\ UNCHANGED <<remaining, twCalls>>

\* The wait of checkRateLimit is over: remaining = 450, reset = now + 15 min
\* with the now of before the wait, and the request is sent.
LimitWaitElapsesFor(c) ==
  /\ twCalls[c].pc = "limitWait"
  /\ remaining' = RateLimitQuota
  /\ twWindowOver' \in BOOLEAN
  /\ twCalls' = [twCalls EXCEPT ![c] =
       [@ EXCEPT !.pc = "inflight", !.sentLow = FALSE]]
  /\ UNCHANGED notTwitter

TwLimitWaitElapses == \E c \in TwCallers : LimitWaitElapsesFor(c)

\* The response of a request arrives: the headers update rateLimit; a 429
\* throws "rate limit", which getTrendingCryptoTopics catches to wait 15
\* minutes; any other failure is thrown to the caller; a 200 decrements
\* remaining, and the call goes on to its next request or returns.
ResponseFor(c) ==
  /\ UNCHANGED notTwitter
  /\ twCalls[c].pc = "inflight"
  /\ \E status \in TwStatuses, header \in RemainingHeaders, valid \in BOOLEAN :
     \E over \in WindowAfterHeader(twWindowOver) :
       LET rem == RemainingAfterHeader(remaining, header) IN
       IF status = 429
       THEN /\ remaining' = rem
            /\ twWindowOver' = over
            /\ twCalls' = [twCalls EXCEPT ![c] = [@ EXCEPT !.pc = "retryWait"]]
       ELSE IF status # 200 \/ (twCalls[c].stage = "search" /\ ~valid)
       THEN /\ remaining' = IF status = 200 THEN rem - 1 ELSE rem
            /\ twWindowOver' = over
            /\ twCalls' = [twCalls EXCEPT ![c] = [@ EXCEPT !.pc = "thrown"]]
       ELSE IF twCalls[c].stage = "search"
       THEN TwEnter(c, "users", rem - 1, over)
       ELSE /\ remaining' = rem - 1
            /\ twWindowOver' = over
            /\ twCalls' = [twCalls EXCEPT ![c] = [@ EXCEPT !.pc = "returned"]]

TwResponse == \E c \in TwCallers : ResponseFor(c)

\* The 15 minutes of the catch block are over: getTrendingCryptoTopics
\* calls itself.
RetryWaitElapsesFor(c) ==
  /\ twCalls[c].pc = "retryWait"
  /\ TwEnter(c, "search", remaining, twWindowOver)
  /\ UNCHANGED notTwitter

TwRetryWaitElapses == \E c \in TwCallers : RetryWaitElapsesFor(c)

TwitterNext ==
  \/ TwCall \/ TwWindowExpires \/ TwLimitWaitElapses \/ TwResponse
  \/ TwRetryWaitElapses

\* Every timer of every call fires and every request is answered.
TwitterFairness ==
  \A c \in TwCallers :
    /\ WF_vars(LimitWaitElapsesFor(c))
    /\ WF_vars(ResponseFor(c))
    /\ WF_vars(RetryWaitElapsesFor(c))

(***************************************************************************)
(* Claims about TwitterClient.                                             *)
(***************************************************************************)
TwRunning(c) == twCalls[c].pc \in {"limitWait", "inflight", "retryWait"}

TwEnded(c) == twCalls[c].pc \in {"returned", "thrown"}

\* C26: every call of getTrendingCryptoTopics ends, by returning or by
\* throwing, whatever the API answers.
C26_AlwaysTerminates ==
  \A c \in TwCallers : TwRunning(c) ~> TwEnded(c)

\* C29: no request is in flight that was sent while remaining was 0 or
\* less, and remaining is never negative.
C29_QuotaRespected ==
  /\ \A c \in TwCallers : twCalls[c].pc = "inflight" => ~twCalls[c].sentLow
  /\ remaining >= 0

Init ==
  /\ EnsInit /\ FetchInit /\ AdInit /\ MarketInit
  /\ AnalyzeInit /\ BatchInit /\ AggregateInit
  /\ TagInit
  /\ LoopInit
  /\ TwitterInit

NextEnsemble == EnsNext

NextFetch == FetchNext

NextAdapter == AdNext

NextMarket == MarketNext

NextAnalyze == AnalyzeNext

NextBatch == BatchNext

NextAggregate == AggregateNext

NextTag == TagNext

NextLoop == LoopNext

NextTwitter == TwitterNext

SpecEnsemble == Init /\ [][NextEnsemble]_vars

SpecFetch == Init /\ [][NextFetch]_vars

SpecAdapter == Init /\ [][NextAdapter]_vars

SpecMarket == Init /\ [][NextMarket]_vars

SpecAnalyze == Init /\ [][NextAnalyze]_vars

SpecBatch == Init /\ [][NextBatch]_vars

SpecAggregate == Init /\ [][NextAggregate]_vars

SpecTag == Init /\ [][NextTag]_vars

SpecLoop == Init /\ [][NextLoop]_vars

SpecTwitter == Init /\ [][NextTwitter]_vars

SpecTwitterFair == SpecTwitter /\ TwitterFairness

====
